---- MODULE Spec2Model ----
(***************************************************************************)
(* Bloxy: BLE HID peripheral bridge.                                       *)
(*                                                                         *)
(* Model of the GATT characteristic / CCCD descriptor state machine        *)
(* (daemon/ble_peripheral.py and the older src/ble_peripheral.py) and of   *)
(* the keyboard report builders (daemon/hid_reports.py,                    *)
(* daemon/evdev_tracker.py KeyboardDevice, src/hid_reports.py), of the     *)
(* mouse report builders and of the evdev input trackers.                  *)
(*                                                                         *)
(* Specifications:                                                         *)
(*   Spec          the characteristic and its CCCD, daemon/ble_peripheral  *)
(*   SpecLegacy    the characteristic and its CCCD, src/ble_peripheral     *)
(*   SpecKeyboard  the keyboard report builders on pressed non-modifier    *)
(*                 keys, in every iteration order                          *)
(*   SpecModifiers the keyboard report builders on pressed modifier keys   *)
(*   SpecUnmapped  the keyboard report builders on pressed keys some of    *)
(*                 which have no usage in the report map                   *)
(*   SpecMouse     the mouse report builders on buttons and deltas         *)
(*   SpecTracker   EvdevTracker open / close / poll and the KeyboardDevice *)
(*                 and MouseDevice adapters, with the device unplugged and *)
(*                 plugged back                                            *)
(*   SpecMotion    the same on relative-motion events                      *)
(*   SpecKeys      the same on key and button events                       *)
(*   SpecLegacyDispatch  update_reports of src/bloxy.py over the           *)
(*                 python-evdev tracker of src/evdev_tracker.py            *)
(*   SpecTicks     the KeyboardDevice adapter polled tick after tick       *)
(*   SpecController  PeripheralController start / stop / Toggle and the    *)
(*                 replies of BlueZ to the GATT and advertisement          *)
(*                 registrations, daemon/dbus_utils.py                     *)
(*   SpecDaemon    HIDDaemon: the ready callback, the 20 ms tick and       *)
(*                 stop(), daemon/hid_daemon.py                            *)
(*   SpecThreads   the main loop's callbacks on the characteristic and     *)
(*                 the status read of the REPL thread                      *)
(*   SpecMouseTicks  the MouseDevice adapter polled tick after tick, the   *)
(*                 tracker also polled and closed directly                 *)
(*   SpecDaemonHost  the tick of HIDDaemon with the host writing the       *)
(*                 keyboard characteristic and the connect-time reports    *)
(*   SpecUI        the console UI's keys against the daemon's SetNotify    *)
(*                 and Toggle, ui/ui.py and ui/status_client.py            *)
(***************************************************************************)
EXTENDS Integers, Sequences, FiniteSets, TLC

VARIABLES
    structure,     \* the characteristic's uuid, service and descriptor list and its
                   \* descriptor's uuid, flags and characteristic
    flags,         \* HIDCharacteristic.flags: set by the configuration, never assigned again
    value,         \* HIDCharacteristic.value: sequence of bytes
    notifying,     \* HIDCharacteristic.notifying
    desc_value,    \* HIDDescriptor.value of the characteristic's 0x2902 descriptor
    last,          \* the most recent call (construction included): its name, arguments,
                   \* the state it started from, the signals it attempted, its result
    pressed_keys,  \* the pressed keys in the order their container iterates them
    report,        \* the keyboard report built from pressed_keys, and by which builder
    mouse_in,      \* the arguments of a mouse report build: buttons, rel_x, rel_y
    mouse_report,  \* the mouse report built from mouse_in, and by which builder
    device,        \* the input device node: whether its path exists, how opening and
                   \* reading it will go, the descriptors the process holds on it
    tracker,       \* EvdevTracker: fd, _connected, key_state, buttons, rel_x, rel_y
    adapters,      \* KeyboardDevice._last_keyset, _last_mods and MouseDevice._last_mask
    dispatch,      \* the dispatch loop: whether it found a mouse report characteristic
    tlast,         \* the most recent call on the tracker or an adapter: its name, the
                   \* events it read, the state it started from, its result
    controller,    \* PeripheralController, the Bluetooth stack's side of its calls and
                   \* the callbacks it has invoked
    daemon,        \* HIDDaemon: its fields, its timer and its most recent tick
    threads,       \* the main loop's and the REPL thread's positions in a call
    ui             \* the console UI: its menu level, its selections, the status its
                   \* client caches and its most recent key

charvars == <<structure, flags, value, notifying, desc_value, last>>
kbvars == <<pressed_keys, report>>
mousevars == <<mouse_in, mouse_report>>
trvars == <<device, tracker, adapters, dispatch, tlast>>
sysvars == <<controller, daemon, threads, ui>>
vars == <<charvars, kbvars, mousevars, trvars, sysvars>>

(***************************************************************************)
(* Bounds and input sets                                                   *)
(***************************************************************************)
\* longest byte sequence a caller passes (reports, CCCD writes)
MaxLen == 2

\* byte values written to the characteristic (report bytes)
ReportBytes == {0, 7}

\* first byte of a CCCD write: every combination of bit 0 (Notify) and bit 1 (Indicate)
CccdBytes == {0, 1, 2, 3}

\* the bytes after the first of a CCCD write
CccdTailBytes == {0}

RECURSIVE SeqsUpTo(_, _)
SeqsUpTo(S, n) ==
    IF n = 0 THEN {<<>>}
    ELSE LET shorter == SeqsUpTo(S, n - 1)
         IN  shorter \cup {Append(s, x) : s \in {t \in shorter : Len(t) = n - 1}, x \in S}

ReportValues == SeqsUpTo(ReportBytes, MaxLen)
CccdValues ==
    {<<>>} \cup {<<b>> \o t : b \in CccdBytes, t \in SeqsUpTo(CccdTailBytes, MaxLen - 1)}

(***************************************************************************)
(* Byte conversion: dbus.Byte(int(v) & 0xFF)                               *)
(***************************************************************************)
Byte(v) == v % 256

to_bytes(vs) == [i \in 1..Len(vs) |-> Byte(vs[i])]

(***************************************************************************)
(* Signals: a PropertiesChanged emission attempted by update_property.     *)
(* ok = FALSE: the D-Bus emission raised.                                  *)
(***************************************************************************)
Signal(obj, prop, val, flag, ok) ==
    [obj |-> obj, prop |-> prop, val |-> val, flag |-> flag, ok |-> ok]

\* GattObject.update_property(name, value): one emission attempt
update_property(obj, name, val, flag, bus_ok) ==
    <<Signal(obj, name, val, flag, bus_ok)>>

\* GattObject.update_property: "except Exception" logs a warning; nothing propagates
update_property_raises(bus_ok) == FALSE

\* the Value signals of the characteristic among the signals of a call
ValueSignals(signals) ==
    SelectSeq(signals, LAMBDA sg : sg.obj = "char" /\ sg.prop = "Value")

\* whether the call that is about to run repeats an update_value that attempted a notify
RepeatsNotified(op, arg) ==
    /\ op = "update_value"
    /\ last.op = "update_value"
    /\ last.arg = arg
    /\ ValueSignals(last.signals) # <<>>

Call(op, arg, flag, signals, ret, raised) ==
    [op |-> op, arg |-> arg, flag |-> flag,
     pre_value |-> value, pre_notifying |-> notifying,
     repeat_notified |-> RepeatsNotified(op, arg),
     signals |-> signals, ret |-> ret, raised |-> raised, error |-> ""]

(***************************************************************************)
(* daemon/ble_peripheral.py: HIDCharacteristic                             *)
(***************************************************************************)
\* a set_notifying that only ever switches notifications on
set_notifying_flag_sticky(cur, enabled) ==
    cur \/ enabled

\* set_notifying: the flag after the call
set_notifying_flag(cur, enabled) ==
    IF cur # enabled THEN enabled ELSE cur

\* a set_notifying that emits the Notifying signal on every call
set_notifying_signals_always(cur, enabled, bus_ok) ==
    update_property("char", "Notifying", <<>>, enabled, bus_ok)

\* set_notifying: the Notifying signal, emitted only when the flag changes
set_notifying_signals(cur, enabled, bus_ok) ==
    IF cur # enabled
    THEN update_property("char", "Notifying", <<>>, enabled, bus_ok)
    ELSE <<>>

ReadValue ==
    /\ last' = Call("ReadValue", <<>>, FALSE, <<>>, value, FALSE)
    /\ UNCHANGED <<structure, flags, value, notifying, desc_value>>

\* a WriteValue that enforces the "write" flag
WriteValue_flagged(bytes, bus_ok) ==
    /\ value' = IF "write" \in flags THEN to_bytes(bytes) ELSE value
    /\ last' = Call("WriteValue", bytes, FALSE,
                    update_property("char", "Value", to_bytes(bytes), FALSE, bus_ok),
                    <<>>, update_property_raises(bus_ok))
    /\ UNCHANGED <<structure, flags, notifying, desc_value>>

WriteValue(bytes, bus_ok) ==
    /\ value' = to_bytes(bytes)
    /\ last' = Call("WriteValue", bytes, FALSE,
                    update_property("char", "Value", to_bytes(bytes), FALSE, bus_ok),
                    <<>>, update_property_raises(bus_ok))
    /\ UNCHANGED <<structure, flags, notifying, desc_value>>

StartNotify(bus_ok) ==
    /\ notifying' = set_notifying_flag(notifying, TRUE)
    /\ last' = Call("StartNotify", <<>>, TRUE,
                    set_notifying_signals(notifying, TRUE, bus_ok),
                    <<>>, update_property_raises(bus_ok))
    /\ UNCHANGED <<structure, flags, value, desc_value>>

\* a StopNotify that also drops the stored report
StopNotify_clearing(bus_ok) ==
    /\ notifying' = set_notifying_flag(notifying, FALSE)
    /\ value' = <<>>
    /\ last' = Call("StopNotify", <<>>, FALSE,
                    set_notifying_signals(notifying, FALSE, bus_ok),
                    <<>>, update_property_raises(bus_ok))
    /\ UNCHANGED <<structure, flags, desc_value>>

StopNotify(bus_ok) ==
    /\ notifying' = set_notifying_flag(notifying, FALSE)
    /\ last' = Call("StopNotify", <<>>, FALSE,
                    set_notifying_signals(notifying, FALSE, bus_ok),
                    <<>>, update_property_raises(bus_ok))
    /\ UNCHANGED <<structure, flags, value, desc_value>>

\* HIDPeripheralService.SetNotify(characteristic_uuid, enable): set_notifying on the
\* characteristic with that uuid; an unknown uuid is logged and changes nothing
SetNotify(characteristic_uuid, enable, bus_ok) ==
    LET found == characteristic_uuid = structure.char.uuid IN
    /\ notifying' = IF found THEN set_notifying_flag(notifying, enable) ELSE notifying
    /\ last' = Call("SetNotify", <<>>, enable,
                    IF found THEN set_notifying_signals(notifying, enable, bus_ok)
                    ELSE <<>>,
                    <<>>, FALSE)
    /\ UNCHANGED <<structure, flags, value, desc_value>>

\* an update_value that stores only after a successful emission is modelled by
\* keeping the old value
update_value_store_kept(cur, new_value) ==
    cur

\* update_value: the stored value after the call
update_value_store(cur, new_value) ==
    IF new_value = cur THEN cur ELSE new_value

\* update_value: the Value signal, emitted whenever the new bytes differ from the
\* stored ones; self.notifying is not read
update_value_signals(cur, is_notifying, new_value, bus_ok) ==
    IF new_value = cur
    THEN <<>>
    ELSE update_property("char", "Value", new_value, FALSE, bus_ok)

update_value(new_value_bytes, bus_ok) ==
    LET new_value == to_bytes(new_value_bytes) IN
    /\ value' = update_value_store(value, new_value)
    /\ last' = Call("update_value", new_value_bytes, FALSE,
                    update_value_signals(value, notifying, new_value, bus_ok),
                    <<>>, new_value # value /\ update_property_raises(bus_ok))
    /\ UNCHANGED <<structure, flags, notifying, desc_value>>

(***************************************************************************)
(* daemon/ble_peripheral.py: HIDDescriptor with UUID 0x2902 (CCCD)         *)
(***************************************************************************)
\* notify_enabled = len(value) >= 1 and (int(value[0]) & 0x01) != 0
notify_enabled(bytes) ==
    Len(bytes) >= 1 /\ bytes[1] % 2 # 0

HIDDescriptor_ReadValue ==
    /\ last' = Call("Desc.ReadValue", <<>>, FALSE, <<>>, desc_value, FALSE)
    /\ UNCHANGED <<structure, flags, value, notifying, desc_value>>

HIDDescriptor_WriteValue(bytes, bus_ok) ==
    LET new_val == to_bytes(bytes)
        enabled == notify_enabled(bytes)
    IN
    /\ desc_value' = new_val
    /\ notifying' = set_notifying_flag(notifying, enabled)
    /\ last' = Call("Desc.WriteValue", bytes, enabled,
                    set_notifying_signals(notifying, enabled, bus_ok)
                        \o update_property("desc", "Value", new_val, FALSE, bus_ok),
                    <<>>, update_property_raises(bus_ok))
    /\ UNCHANGED <<structure, flags, value>>

\* a Set that stores the property it is given
Set_storing(obj, interface, prop, val) ==
    /\ structure' = IF prop = "UUID" THEN [structure EXCEPT ![obj].uuid = val]
                    ELSE structure
    /\ flags' = IF prop = "Flags" /\ obj = "char" THEN {val} ELSE flags
    /\ last' = Call("Set", <<>>, FALSE, <<>>, <<>>, FALSE)
    /\ UNCHANGED <<value, notifying, desc_value>>

\* GattObject.Set of the characteristic ("char") or its descriptor ("desc"): a wrong
\* interface raises InvalidArgs, every other call PropertyReadOnly; nothing is stored
Set(obj, interface, prop, val) ==
    /\ last' = [Call("Set", <<>>, FALSE, <<>>, <<>>, TRUE) EXCEPT
                   !.error = IF interface # (IF obj = "char"
                                            THEN "org.bluez.GattCharacteristic1"
                                            ELSE "org.bluez.GattDescriptor1")
                             THEN "org.freedesktop.DBus.Error.InvalidArgs"
                             ELSE "org.freedesktop.DBus.Error.PropertyReadOnly"]
    /\ UNCHANGED <<structure, flags, value, notifying, desc_value>>

(***************************************************************************)
(* Keyboard reports                                                        *)
(***************************************************************************)
\* most keys pressed at once
MaxPressed == 7

\* most keys pressed at once where some have no usage
MaxUnmappedPressed == 8

\* most keys pressed at once where the modifier byte is examined
MaxModPressed == 3

\* Key identifiers in the order Python compares the strings (sorted()).
KeyOrder ==
    <<"KEY_A", "KEY_B", "KEY_C", "KEY_D", "KEY_E", "KEY_F", "KEY_F1", "KEY_F2",
      "KEY_G",
      "KEY_LEFTALT", "KEY_LEFTCTRL", "KEY_LEFTMETA", "KEY_LEFTSHIFT",
      "KEY_RIGHTALT", "KEY_RIGHTCTRL", "KEY_RIGHTMETA", "KEY_RIGHTSHIFT">>

KeyRanks == [key \in {KeyOrder[i] : i \in 1..Len(KeyOrder)} |->
                CHOOSE i \in 1..Len(KeyOrder) : KeyOrder[i] = key]

KeyRank(key) == KeyRanks[key]

ModifierKeys ==
    {"KEY_LEFTCTRL", "KEY_LEFTSHIFT", "KEY_LEFTALT", "KEY_LEFTMETA",
     "KEY_RIGHTCTRL", "KEY_RIGHTSHIFT", "KEY_RIGHTALT", "KEY_RIGHTMETA"}

\* seven mapped keys (one more than the report holds) and one key without a usage
PlainKeys == {"KEY_A", "KEY_B", "KEY_C", "KEY_D", "KEY_E", "KEY_F", "KEY_G", "KEY_F1"}

\* six mapped keys (as many as the report holds) and two keys without a usage
UnmappedSpecKeys ==
    {"KEY_A", "KEY_B", "KEY_C", "KEY_D", "KEY_E", "KEY_F", "KEY_F1", "KEY_F2"}

\* the keys pressed together with modifiers
ModifierSpecKeys == ModifierKeys \cup {"KEY_A"}

Range(seq) == {seq[i] : i \in 1..Len(seq)}

\* sorted(keys)
RECURSIVE sorted(_)
sorted(keys) ==
    IF keys = {} THEN <<>>
    ELSE LET first == CHOOSE k \in keys : \A other \in keys : KeyRank(k) <= KeyRank(other)
         IN  <<first>> \o sorted(keys \ {first})

\* a | b on bytes
RECURSIVE BitOr(_, _)
BitOr(a, b) ==
    IF a = 0 THEN b
    ELSE IF b = 0 THEN a
    ELSE (IF a % 2 = 1 \/ b % 2 = 1 THEN 1 ELSE 0) + 2 * BitOr(a \div 2, b \div 2)

\* whether every bit of mask is set in byte
HasBits(byte, mask) == BitOr(byte, mask) = byte

\* KEYCODE_TO_HID.get(key): 0 stands for None
KEYCODE_TO_HID(key) ==
    CASE key = "KEY_A" -> 4
      [] key = "KEY_B" -> 5
      [] key = "KEY_C" -> 6
      [] key = "KEY_D" -> 7
      [] key = "KEY_E" -> 8
      [] key = "KEY_F" -> 9
      [] key = "KEY_G" -> 10
      [] key = "KEY_LEFTCTRL" -> 224
      [] key = "KEY_LEFTSHIFT" -> 225
      [] key = "KEY_LEFTALT" -> 226
      [] key = "KEY_LEFTMETA" -> 227
      [] key = "KEY_RIGHTCTRL" -> 228
      [] key = "KEY_RIGHTSHIFT" -> 229
      [] key = "KEY_RIGHTALT" -> 230
      [] key = "KEY_RIGHTMETA" -> 231
      [] OTHER -> 0

\* self.maps['keyboard'].get(key), the table of report_map.yaml: the usages of the
\* non-modifier keys; 0 stands for None
keyboard_map(key) ==
    IF key \in ModifierKeys THEN 0 ELSE KEYCODE_TO_HID(key)

\* HIDReportBuilder.modifiers.get(key): 0 stands for None
modifiers(key) ==
    CASE key = "KEY_LEFTCTRL" -> 1
      [] key = "KEY_LEFTSHIFT" -> 2
      [] key = "KEY_LEFTALT" -> 4
      [] key = "KEY_LEFTMETA" -> 8
      [] key = "KEY_RIGHTCTRL" -> 16
      [] key = "KEY_RIGHTSHIFT" -> 32
      [] key = "KEY_RIGHTALT" -> 64
      [] key = "KEY_RIGHTMETA" -> 128
      [] OTHER -> 0

\* daemon/hid_reports.py, first loop: buf[0] |= mod for every pressed key with a bit
RECURSIVE modifier_loop(_, _)
modifier_loop(keys, acc) ==
    IF keys = <<>> THEN acc
    ELSE LET mod == modifiers(Head(keys))
         IN  modifier_loop(Tail(keys), IF mod # 0 THEN BitOr(acc, mod) ELSE acc)

\* a key loop in which a key without a usage still takes a slot
RECURSIVE key_loop_slot_per_key(_, _)
key_loop_slot_per_key(keys, slots) ==
    IF keys = <<>> \/ Len(slots) >= 6 THEN slots
    ELSE key_loop_slot_per_key(Tail(keys), Append(slots, keyboard_map(Head(keys)) % 256))

\* daemon/hid_reports.py, second loop: the usages written to buf[2..7], in the
\* order the keys are iterated; stops when idx reaches 8
RECURSIVE key_loop(_, _)
key_loop(keys, slots) ==
    IF keys = <<>> \/ Len(slots) >= 6 THEN slots
    ELSE LET usage == keyboard_map(Head(keys))
         IN  key_loop(Tail(keys), IF usage # 0 THEN Append(slots, usage % 256) ELSE slots)

\* keycodes padded with 0x00 to six slots
pad6(slots) == slots \o [i \in 1..(6 - Len(slots)) |-> 0]

\* daemon/hid_reports.py HIDReportBuilder.build_keyboard_report_bytes
build_keyboard_report_bytes(keys) ==
    <<modifier_loop(keys, 0), 0>> \o pad6(key_loop(keys, <<>>))

\* src/hid_reports.py HIDReportBuilder.build_keyboard_report: every key with a
\* usage is written while idx < 8
RECURSIVE Legacy_key_loop(_, _)
Legacy_key_loop(keys, slots) ==
    IF keys = <<>> THEN slots
    ELSE LET usage == keyboard_map(Head(keys))
         IN  Legacy_key_loop(Tail(keys),
                             IF usage # 0 /\ Len(slots) < 6 THEN Append(slots, usage)
                             ELSE slots)

Legacy_build_keyboard_report(keys) ==
    <<modifier_loop(keys, 0), 0>> \o pad6(Legacy_key_loop(keys, <<>>))

\* daemon/evdev_tracker.py KeyboardDevice
REPORT_ID == 1
MAX_KEYS == 6

\* _build_report, first loop: left and right modifier share one bit
device_modifier_bit(key) ==
    CASE key \in {"KEY_LEFTCTRL", "KEY_RIGHTCTRL"} -> 1
      [] key \in {"KEY_LEFTSHIFT", "KEY_RIGHTSHIFT"} -> 2
      [] key \in {"KEY_LEFTALT", "KEY_RIGHTALT"} -> 4
      [] key \in {"KEY_LEFTMETA", "KEY_RIGHTMETA"} -> 8
      [] OTHER -> 0

RECURSIVE device_modifier_loop(_, _)
device_modifier_loop(keys, acc) ==
    IF keys = <<>> THEN acc
    ELSE device_modifier_loop(Tail(keys), BitOr(acc, device_modifier_bit(Head(keys))))

\* _build_report, second loop over sorted(key_state): non-modifier keys with a
\* usage, until MAX_KEYS are collected
RECURSIVE device_key_loop(_, _)
device_key_loop(keys, keycodes) ==
    IF keys = <<>> THEN keycodes
    ELSE LET key == Head(keys)
             hid == KEYCODE_TO_HID(key)
         IN  IF key \notin ModifierKeys
             THEN LET next == IF hid # 0 THEN Append(keycodes, hid) ELSE keycodes
                  IN  IF Len(next) >= MAX_KEYS THEN next
                      ELSE device_key_loop(Tail(keys), next)
             ELSE device_key_loop(Tail(keys), keycodes)

\* KeyboardDevice._build_report on tracker.key_state = key_state
build_report(key_state) ==
    <<REPORT_ID, device_modifier_loop(sorted(key_state), 0), 0>>
        \o pad6(device_key_loop(sorted(key_state), <<>>))

NoReport == [by |-> "none", bytes |-> <<>>]

NoKeyboard == pressed_keys = <<>> /\ report = NoReport

\* no mouse report built
NoMouse ==
    /\ mouse_in = [buttons |-> {}, rel_x |-> 0, rel_y |-> 0]
    /\ mouse_report = NoReport

\* an integer as hi * 2^32 + lo, with lo small: Python integers are unbounded
Num(hi, lo) == [hi |-> hi, lo |-> lo]
Zero == Num(0, 0)

\* EvdevTracker.__init__, KeyboardDevice.__init__, MouseDevice.__init__, with the
\* device node present; fd 0 stands for None
NoTracker ==
    /\ device = [path_exists |-> TRUE, held |-> {}, live |-> {}]
    /\ tracker = [fd |-> 0, connected |-> FALSE, key_state |-> {}, buttons |-> {},
                  rel_x |-> Zero, rel_y |-> Zero]
    /\ adapters = [last_keyset |-> {}, last_mods |-> 0, last_mask |-> 0]
    /\ dispatch = [mouse_char |-> FALSE]
    /\ tlast = [op |-> "init", again |-> FALSE, open_out |-> "ok", sel |-> "idle", rd |-> "would_block",
                n_events |-> 0, was_connected |-> FALSE,
                was_lost |-> FALSE, lost |-> FALSE,
                pre_fd |-> 0, pre_held |-> {},
                mid_x |-> Zero, mid_y |-> Zero, kept |-> TRUE, moved |-> FALSE,
                new_press |-> FALSE,
                ret |-> FALSE, report |-> <<>>, consumed |-> FALSE, raised |-> FALSE,
                sum_x |-> 0, sum_y |-> 0, sum_wheel |-> 0]

\* the characteristic as constructed, untouched while reports are built
\* HIDCharacteristic.__init__ and HIDDescriptor.__init__: the fields built from the
\* configuration of an input report characteristic with its 0x2902 descriptor
ConfigStructure ==
    [char |-> [uuid |-> "00002a4d-0000-1000-8000-00805f9b34fb",
               service |-> "/org/example/HIDPeripheral/service0",
               descriptors |-> <<"/org/example/HIDPeripheral/service0/char0/desc0">>],
     desc |-> [uuid |-> "00002902-0000-1000-8000-00805f9b34fb",
               flags |-> {"read", "write"},
               char |-> "/org/example/HIDPeripheral/service0/char0"]]

\* PeripheralController.__init__: is_on False, no registration call in flight, no
\* retry timer, no callback invoked. gen counts the start() calls; a call in
\* flight, a timer and every entry of the history sets carry the number of the
\* start() they come from: app_ok and adv_ok, the registration succeeded or
\* reported AlreadyExists; adv_tried, RegisterAdvertisement was called; retried,
\* the advertisement got NoReply; refused, a registration got any other error;
\* ready and failed, the callback was invoked
NoController ==
    [is_on |-> FALSE, powered |-> FALSE, gen |-> 0,
     calls |-> {}, timers |-> {},
     app_ok |-> {}, adv_tried |-> {}, adv_ok |-> {}, refused |-> {}, retried |-> {},
     ready |-> {}, failed |-> {},
     op |-> "init", act |-> "", was_on |-> FALSE, ret |-> FALSE, status |-> FALSE,
     prev_op |-> "", prev_act |-> ""]

\* the record of a tick: whether keyboard_dev.poll() ran and reported a change,
\* whether the keyboard report was pushed, whether mouse_svc.poll() ran and pushed a
\* report, whether update_reports caught an exception, what it returned, and
\* whether the call before it was a tick that caught an exception
NoTick ==
    [kb_polled |-> FALSE, kb_changed |-> FALSE, kb_pushed |-> FALSE,
     mouse_polled |-> FALSE, mouse_pushed |-> FALSE, caught |-> FALSE,
     ret |-> TRUE, after_fault |-> FALSE]

\* HIDDaemon.__init__: no tracker, no characteristic, no service, no timer.
\* config: which services the configuration describes; poll_bound: whether
\* keyboard_dev.poll resolves to the poll written after EvdevTracker; op: the most
\* recent call on the daemon; readies: the ready callbacks so far; kb_value: the
\* value stored in the keyboard input report characteristic, configured as the
\* empty report
NoDaemon ==
    [config |-> "keyboard", poll_bound |-> TRUE,
     keyboard_dev |-> FALSE, mouse_dev |-> FALSE,
     keyboard_char |-> FALSE, mouse_svc |-> FALSE,
     daemon_service |-> FALSE, service_created |-> FALSE, ready_seen |-> FALSE,
     kb_value |-> <<0, 0, 0, 0, 0, 0, 0, 0>>,
     last_kb_report |-> <<>>, timers |-> 0, readies |-> 0, op |-> "init", tick |-> NoTick]

\* no call in progress on either thread
NoThreads ==
    [main |-> "idle", op |-> "", bus_ok |-> TRUE,
     repl |-> "idle", snapshot |-> [value |-> <<>>, notifying |-> FALSE]]

\* a status that was never received, a selection that was never made
NoStatus == [known |-> FALSE, notifying |-> FALSE]

\* ConsoleUI.__init__ after a successful _connect_client(initial=True): the root
\* level, nothing selected; StatusClient.__init__: latest_status = None
NoUI ==
    [level |-> "root", selected_index |-> 0, service_available |-> TRUE,
     selected_service |-> NoStatus, selected_char |-> NoStatus,
     latest_status |-> NoStatus,
     key |-> "", enable |-> FALSE, cur |-> FALSE,
     prev_key |-> "", prev_enable |-> FALSE]

\* no controller, no daemon, no call in progress, the UI at its root level
NoSystem ==
    /\ controller = NoController
    /\ daemon = NoDaemon
    /\ threads = NoThreads
    /\ ui = NoUI

IdleCharacteristic ==
    /\ structure = ConfigStructure
    /\ flags = {"read", "notify"}
    /\ value = <<>>
    /\ notifying = FALSE
    /\ desc_value = <<0, 0>>
    /\ last = [op |-> "init", arg |-> <<>>, flag |-> FALSE,
               pre_value |-> <<>>, pre_notifying |-> FALSE,
               repeat_notified |-> FALSE,
               signals |-> <<>>, ret |-> <<>>, raised |-> FALSE, error |-> ""]

\* report_builder.build_keyboard_report(list(pressed_keys))
BuildWithBuilder ==
    /\ report = NoReport
    /\ report' = [by |-> "builder", bytes |-> build_keyboard_report_bytes(pressed_keys)]
    /\ UNCHANGED <<pressed_keys, charvars, mousevars, trvars, sysvars>>

\* KeyboardDevice._build_report()
BuildWithDevice ==
    /\ report = NoReport
    /\ report' = [by |-> "device", bytes |-> build_report(Range(pressed_keys))]
    /\ UNCHANGED <<pressed_keys, charvars, mousevars, trvars, sysvars>>

\* the older report_builder.build_keyboard_report(list(pressed_keys))
BuildWithLegacy ==
    /\ report = NoReport
    /\ report' = [by |-> "legacy", bytes |-> Legacy_build_keyboard_report(pressed_keys)]
    /\ UNCHANGED <<pressed_keys, charvars, mousevars, trvars, sysvars>>

\* list(pressed_keys): the set yields its next key; the order is the set's own,
\* so any key not yet listed can come next
Iterate(key, most) ==
    /\ report = NoReport
    /\ key \notin Range(pressed_keys)
    /\ Len(pressed_keys) < most
    /\ pressed_keys' = Append(pressed_keys, key)
    /\ UNCHANGED <<report, charvars, mousevars, trvars, sysvars>>

KeyboardInit == NoKeyboard /\ IdleCharacteristic /\ NoMouse /\ NoTracker /\ NoSystem

KeyboardNext ==
    \/ \E key \in PlainKeys : Iterate(key, MaxPressed)
    \/ BuildWithBuilder
    \/ BuildWithDevice
    \/ BuildWithLegacy

ModifiersNext ==
    \/ \E key \in ModifierSpecKeys : Iterate(key, MaxModPressed)
    \/ BuildWithBuilder
    \/ BuildWithDevice
    \/ BuildWithLegacy

UnmappedNext ==
    \/ \E key \in UnmappedSpecKeys : Iterate(key, MaxUnmappedPressed)
    \/ BuildWithBuilder
    \/ BuildWithDevice

SpecKeyboard == KeyboardInit /\ [][KeyboardNext]_vars

SpecModifiers == KeyboardInit /\ [][ModifiersNext]_vars

SpecUnmapped == KeyboardInit /\ [][UnmappedNext]_vars

(***************************************************************************)
(* Mouse report builders: daemon/hid_reports.py build_mouse_report_bytes   *)
(* and the older src/hid_reports.py build_mouse_report                     *)
(***************************************************************************)
\* largest magnitude of a motion delta handed to a builder
MaxDelta == 200

\* the rel_y arguments tried with every rel_x
DeltaSamples == {0 - MaxDelta, -128, -127, 0, 127, 128, MaxDelta}

\* button names: the three of the table and one the table does not have
ButtonNames == {"BTN_LEFT", "BTN_RIGHT", "BTN_MIDDLE", "BTN_SIDE"}

\* self.maps['mouse'].get(name, 0), the table of report_map.yaml
mouse_map(name) ==
    CASE name = "BTN_LEFT" -> 1
      [] name = "BTN_RIGHT" -> 2
      [] name = "BTN_MIDDLE" -> 4
      [] OTHER -> 0

\* the button byte: b |= mask for every button of the three names
RECURSIVE button_loop(_, _)
button_loop(btns, b) ==
    IF btns = {} THEN b
    ELSE LET btn == CHOOSE x \in btns : TRUE
         IN  button_loop(btns \ {btn},
                         IF btn \in {"BTN_LEFT", "BTN_RIGHT", "BTN_MIDDLE"}
                         THEN BitOr(b, mouse_map(btn)) ELSE b)

\* build_mouse_report_bytes.clamp8: clamp to -127..127, then v & 0xFF
clamp8(v) ==
    IF v > 127 THEN 127
    ELSE IF v < -127 THEN (-127) % 256
    ELSE v % 256

\* daemon/hid_reports.py HIDReportBuilder.build_mouse_report_bytes
build_mouse_report_bytes(btns, rel_x, rel_y) ==
    <<button_loop(btns, 0) % 256, clamp8(rel_x), clamp8(rel_y), 0>>

\* src/hid_reports.py HIDReportBuilder.build_mouse_report
Legacy_build_mouse_report(btns, rel_x, rel_y) ==
    << BitOr(BitOr(IF "BTN_LEFT" \in btns THEN 1 ELSE 0,
                   IF "BTN_RIGHT" \in btns THEN 2 ELSE 0),
             IF "BTN_MIDDLE" \in btns THEN 4 ELSE 0),
       (rel_x + 256) % 256,
       (rel_y + 256) % 256,
       0 >>

\* report_builder.build_mouse_report_bytes(buttons, rel_x, rel_y)
BuildMouseWithBuilder ==
    /\ mouse_report = NoReport
    /\ mouse_report' = [by |-> "builder",
                        bytes |-> build_mouse_report_bytes(mouse_in.buttons,
                                                           mouse_in.rel_x, mouse_in.rel_y)]
    /\ UNCHANGED <<mouse_in, charvars, kbvars, trvars, sysvars>>

\* the older report_builder.build_mouse_report(buttons, rel_x, rel_y)
BuildMouseWithLegacy ==
    /\ mouse_report = NoReport
    /\ mouse_report' = [by |-> "legacy",
                        bytes |-> Legacy_build_mouse_report(mouse_in.buttons,
                                                            mouse_in.rel_x, mouse_in.rel_y)]
    /\ UNCHANGED <<mouse_in, charvars, kbvars, trvars, sysvars>>

\* the arguments of one build: any buttons, any rel_x in range, sampled rel_y
MouseInit ==
    /\ mouse_in \in [buttons : SUBSET ButtonNames,
                     rel_x : (0 - MaxDelta)..MaxDelta,
                     rel_y : DeltaSamples]
    /\ mouse_report = NoReport
    /\ NoKeyboard
    /\ IdleCharacteristic
    /\ NoTracker
    /\ NoSystem

MouseNext ==
    \/ BuildMouseWithBuilder
    \/ BuildMouseWithLegacy

SpecMouse == MouseInit /\ [][MouseNext]_vars

(***************************************************************************)
(* daemon/evdev_tracker.py: EvdevTracker, poll, KeyboardDevice, MouseDevice *)
(*                                                                         *)
(* poll (line 175) and _code_to_name (line 295) are written below the      *)
(* class body of EvdevTracker; the calls self.tracker.poll() and           *)
(* self._code_to_name(code) are resolved by name to those definitions.     *)
(* Descriptors are positive numbers (0, 1, 2 are the standard streams).    *)
(***************************************************************************)
\* most events in one read
MaxEvents == 2

\* the accumulators stay within hi <= MaxWraps and -MaxRel <= lo <= MaxRel
MaxWraps == 2
MaxRel == 2

\* most events in one read where motion is examined
MaxMotionEvents == 1

EV_KEY == 1
EV_REL == 2
REL_X == 0
REL_Y == 1
MOUSE_REPORT_ID == 2

\* input_event records as the kernel writes them: type, code, signed 32-bit value.
\* Key codes: 30 KEY_A, 48 KEY_B, 272 BTN_LEFT, 59 KEY_F1 (not in CODE_TO_NAME).
\* Type 0 is EV_SYN, the frame boundary; EV_REL code 8 is REL_WHEEL.
Ev(type, code, val) == [type |-> type, code |-> code, value |-> val]

\* os.open: success, FileNotFoundError, PermissionError, any other exception
OpenOutcomes == {"ok", "not_found", "permission", "error"}

\* select.select: the descriptor is readable, is not, or select raises
SelectOutcomes == {"ready", "idle", "raises"}

\* os.read: data, BlockingIOError, OSError, another exception, zero bytes
ReadOutcomes == {"events", "would_block", "os_error", "error", "eof"}

\* struct.unpack('llHHI'): the value field is read as an unsigned 32-bit integer
unpack_value(v) == IF v < 0 THEN Num(1, v) ELSE Num(0, v)

\* the value field read as the signed integer the kernel wrote
unpack_value_signed(v) == Num(0, v)

NumAdd(a, b) == Num(a.hi + b.hi, a.lo + b.lo)
NumIsZero(a) == a.hi = 0 /\ a.lo = 0
NumGreater(a, n) == a.hi > 0 \/ (a.hi = 0 /\ a.lo > n)
NumLess(a, n) == a.hi < 0 \/ (a.hi = 0 /\ a.lo < n)

\* the descriptor os.open returns: the lowest one free
NewFd(d) == CHOOSE n \in 3..(3 + Cardinality(d.held)) :
                n \notin d.held /\ \A m \in 3..(n - 1) : m \in d.held

\* EvdevTracker.fileno
fileno(t) == IF t.fd # 0 THEN t.fd ELSE -1

\* EvdevTracker.open when it opens a descriptor whatever it already holds
open_result_reopening(t, d, out) ==
    IF d.path_exists /\ out = "ok"
    THEN [t |-> [t EXCEPT !.fd = NewFd(d), !.connected = TRUE],
          d |-> [d EXCEPT !.held = @ \cup {NewFd(d)}, !.live = @ \cup {NewFd(d)}]]
    ELSE [t |-> [t EXCEPT !.fd = 0, !.connected = FALSE], d |-> d]

\* EvdevTracker.open: the tracker and the device after the call
open_result(t, d, out) ==
    IF t.fd # 0 THEN [t |-> t, d |-> d]
    ELSE IF ~d.path_exists THEN [t |-> [t EXCEPT !.connected = FALSE], d |-> d]
    ELSE IF out = "ok"
         THEN [t |-> [t EXCEPT !.fd = NewFd(d), !.connected = TRUE],
               d |-> [d EXCEPT !.held = @ \cup {NewFd(d)}, !.live = @ \cup {NewFd(d)}]]
         ELSE [t |-> [t EXCEPT !.fd = 0, !.connected = FALSE], d |-> d]

\* EvdevTracker.open never lets an exception out: every os.open failure is caught
open_raises(out) == FALSE

\* a close that also forgets what was pressed
close_result_clearing(t, d) ==
    [t |-> [t EXCEPT !.fd = 0, !.connected = FALSE, !.key_state = {}, !.buttons = {}],
     d |-> IF t.fd # 0
           THEN [d EXCEPT !.held = @ \ {t.fd}, !.live = @ \ {t.fd}]
           ELSE d]

\* EvdevTracker.close
close_result(t, d) ==
    [t |-> [t EXCEPT !.fd = 0, !.connected = FALSE],
     d |-> IF t.fd # 0
           THEN [d EXCEPT !.held = @ \ {t.fd}, !.live = @ \ {t.fd}]
           ELSE d]

\* EvdevTracker._read_events that keeps the descriptor after a failed read
read_events_keeping(t, d, rd, batch) ==
    [t |-> t, d |-> d, events |-> IF t.fd # 0 /\ rd = "events" THEN batch ELSE <<>>]

\* EvdevTracker._read_events: the tracker and the device after the read, and the
\* records yielded
read_events(t, d, rd, batch) ==
    IF t.fd = 0 THEN [t |-> t, d |-> d, events |-> <<>>]
    ELSE IF rd = "would_block" THEN [t |-> t, d |-> d, events |-> <<>>]
    ELSE IF rd \in {"os_error", "error", "eof"}
         THEN [t |-> close_result(t, d).t, d |-> close_result(t, d).d, events |-> <<>>]
    ELSE [t |-> t, d |-> d, events |-> batch]

\* _code_to_name: CODE_TO_NAME.get(code); "" stands for None
code_to_name(code) ==
    CASE code = 30 -> "KEY_A"
      [] code = 48 -> "KEY_B"
      [] code = 42 -> "KEY_LEFTSHIFT"
      [] code = 272 -> "BTN_LEFT"
      [] code = 273 -> "BTN_RIGHT"
      [] code = 274 -> "BTN_MIDDLE"
      [] OTHER -> ""

IsButton(name) == name \in {"BTN_LEFT", "BTN_RIGHT", "BTN_MIDDLE"}

\* the body of poll's loop for one event; acc is the tracker with the two flags
\* changed and events_seen
handle_event(acc, ev) ==
    LET t == acc.t
        val == unpack_value(ev.value)
        name == code_to_name(ev.code)
        Moved(t2) == [t |-> t2, changed |-> TRUE, events_seen |-> TRUE]
        Seen == [acc EXCEPT !.events_seen = TRUE]
    IN  IF ev.type = EV_REL
        THEN IF ev.code = REL_X /\ ~NumIsZero(val)
             THEN Moved([t EXCEPT !.rel_x = NumAdd(@, val)])
             ELSE IF ev.code = REL_Y /\ ~NumIsZero(val)
             THEN Moved([t EXCEPT !.rel_y = NumAdd(@, val)])
             ELSE acc
        ELSE IF ev.type = EV_KEY
        THEN IF name = "" THEN acc
             ELSE IF ~NumIsZero(val)
             THEN IF IsButton(name)
                  THEN IF name \notin t.buttons
                       THEN Moved([t EXCEPT !.buttons = @ \cup {name}])
                       ELSE Seen
                  ELSE IF name \notin t.key_state
                       THEN Moved([t EXCEPT !.key_state = @ \cup {name}])
                       ELSE Seen
             ELSE IF IsButton(name)
                  THEN IF name \in t.buttons
                       THEN Moved([t EXCEPT !.buttons = @ \ {name}])
                       ELSE acc
                  ELSE IF name \in t.key_state
                       THEN Moved([t EXCEPT !.key_state = @ \ {name}])
                       ELSE acc
        ELSE acc

RECURSIVE handle_events(_, _)
handle_events(acc, events) ==
    IF events = <<>> THEN acc
    ELSE handle_events(handle_event(acc, Head(events)), Tail(events))

\* a poll that does not try to open the device
poll_result_no_reopen(t, d, open_out, sel, rd, batch) ==
    IF ~t.connected \/ sel # "ready" THEN [t |-> t, d |-> d, ret |-> FALSE]
    ELSE LET read == read_events(t, d, rd, batch)
             done == handle_events([t |-> read.t, changed |-> FALSE,
                                    events_seen |-> FALSE], read.events)
         IN  [t |-> done.t, d |-> read.d, ret |-> done.changed \/ done.events_seen]

\* poll: the tracker and the device after the call, and the value returned
poll_result(t, d, open_out, sel, rd, batch) ==
    LET opened == IF ~t.connected THEN open_result(t, d, open_out)
                  ELSE [t |-> t, d |-> d]
    IN  IF ~opened.t.connected THEN [t |-> opened.t, d |-> opened.d, ret |-> FALSE]
        ELSE IF fileno(opened.t) < 0 THEN [t |-> opened.t, d |-> opened.d, ret |-> FALSE]
        ELSE IF sel # "ready" THEN [t |-> opened.t, d |-> opened.d, ret |-> FALSE]
        ELSE LET read == read_events(opened.t, opened.d, rd, batch)
                 done == handle_events([t |-> read.t, changed |-> FALSE,
                                        events_seen |-> FALSE], read.events)
             IN  [t |-> done.t, d |-> read.d,
                  ret |-> done.changed \/ done.events_seen]

\* poll never lets an exception out: select's are caught at line 207, os.read's
\* in _read_events, os.open's in open
poll_raises(open_out, sel, rd) == FALSE

\* the signed sum of the values of the events of one type and code
RECURSIVE SignedSum(_, _, _)
SignedSum(events, type, code) ==
    IF events = <<>> THEN 0
    ELSE (IF Head(events).type = type /\ Head(events).code = code
          THEN Head(events).value ELSE 0) + SignedSum(Tail(events), type, code)

\* key, button and motion state
Observable(t) == <<t.key_state, t.buttons, t.rel_x, t.rel_y>>

\* whether handling the events one after the other changes the observable state
\* at some point
RECURSIVE ChangedDuring(_, _)
RECURSIVE NewKeyPress(_, _)
ChangedDuring(t, events) ==
    IF events = <<>> THEN FALSE
    ELSE LET next == handle_event([t |-> t, changed |-> FALSE, events_seen |-> FALSE],
                                  Head(events)).t
         IN  Observable(next) # Observable(t) \/ ChangedDuring(next, Tail(events))

\* the record of a call: whether the tracker was connected, the descriptor it held
\* and the descriptors the process held when the call began; lost, whether the
\* tracker is disconnected since a failed read (was_lost: when the call began);
\* again, whether the call before it was the same operation; mid_x and mid_y, the
\* accumulators when the tracker's own poll returned; kept, whether the observable
\* state was then as at the beginning; moved, whether the events read changed it;
\* sum_x, sum_y and sum_wheel, the signed sums of the REL_X, REL_Y and REL_WHEEL
\* values read since the accumulators were last zeroed
\* whether the records hold a key event (not a button) that puts a key that was up
\* into key_state
NewKeyPress(t, events) ==
    IF events = <<>> THEN FALSE
    ELSE LET ev == Head(events)
             name == code_to_name(ev.code)
             next == handle_event([t |-> t, changed |-> FALSE, events_seen |-> FALSE],
                                  ev).t
         IN  \/ /\ ev.type = EV_KEY /\ name # "" /\ ~IsButton(name)
                /\ name \notin t.key_state /\ name \in next.key_state
             \/ NewKeyPress(next, Tail(events))

TCall(op, open_out, sel, rd, events, mid, ret, out_report, consumed) ==
    [op |-> op, again |-> tlast.op = op,
     open_out |-> open_out, sel |-> sel, rd |-> rd,
     n_events |-> Len(events),
     was_connected |-> tracker.connected,
     was_lost |-> tlast.lost,
     lost |-> /\ ~mid.connected
              /\ \/ tlast.lost
                 \/ tracker.connected /\ rd \in {"os_error", "error", "eof"},
     pre_fd |-> tracker.fd, pre_held |-> device.held,
     mid_x |-> mid.rel_x, mid_y |-> mid.rel_y,
     kept |-> Observable(mid) = Observable(tracker),
     moved |-> ChangedDuring(tracker, events),
     new_press |-> NewKeyPress(tracker, events),
     ret |-> ret, report |-> out_report, consumed |-> consumed,
     raised |-> \/ op = "open" /\ open_raises(open_out)
                \/ op # "open" /\ poll_raises(open_out, sel, rd),
     sum_x |-> (IF consumed THEN 0 ELSE tlast.sum_x + SignedSum(events, EV_REL, REL_X)),
     sum_y |-> (IF consumed THEN 0 ELSE tlast.sum_y + SignedSum(events, EV_REL, REL_Y)),
     sum_wheel |-> (IF consumed THEN 0
                    ELSE tlast.sum_wheel + SignedSum(events, EV_REL, 8))]

\* the outcomes that can be told apart: os.open is reached only while disconnected
\* with the path present, select only on a connected tracker, os.read only after
\* select reports the descriptor readable, and a descriptor whose device is gone
\* yields no more events
Outcomes(t, d, open_out, sel, rd, batch) ==
    /\ (t.connected \/ ~d.path_exists) => open_out = "ok"
    /\ ~open_result(t, d, open_out).t.connected => sel = "idle"
    /\ sel # "ready" => rd = "would_block"
    /\ (rd = "events") = (batch # <<>>)
    /\ (t.fd # 0 /\ t.fd \notin d.live) => rd \in {"os_error", "eof", "would_block"}

\* the accumulators stay in range
InRange(t, sums) ==
    /\ t.rel_x.hi <= MaxWraps /\ t.rel_y.hi <= MaxWraps
    /\ t.rel_x.lo >= 0 - MaxRel /\ t.rel_x.lo <= MaxRel
    /\ t.rel_y.lo >= 0 - MaxRel /\ t.rel_y.lo <= MaxRel
    /\ sums.sum_wheel <= MaxRel

\* tracker.open()
open(open_out) ==
    /\ (tracker.fd # 0 \/ ~device.path_exists) => open_out = "ok"
    /\ \E o \in {open_result(tracker, device, open_out)} :
           /\ tracker' = o.t
           /\ device' = o.d
           /\ tlast' = TCall("open", open_out, "idle", "would_block", <<>>,
                             o.t, TRUE, <<>>, FALSE)
    /\ UNCHANGED adapters

\* tracker.close()
close ==
    /\ \E c \in {close_result(tracker, device)} :
           /\ tracker' = c.t
           /\ device' = c.d
           /\ tlast' = TCall("close", "ok", "idle", "would_block", <<>>,
                             c.t, TRUE, <<>>, FALSE)
    /\ UNCHANGED adapters

\* poll(tracker)
poll(open_out, sel, rd, batch) ==
    /\ Outcomes(tracker, device, open_out, sel, rd, batch)
    /\ \E p \in {poll_result(tracker, device, open_out, sel, rd, batch)} :
           /\ tracker' = p.t
           /\ device' = p.d
           /\ tlast' = TCall("poll", open_out, sel, rd, batch, p.t, p.ret, <<>>, FALSE)
           /\ InRange(p.t, tlast')
    /\ UNCHANGED adapters

\* KeyboardDevice.poll() on a disconnected tracker: (False, None)
KeyboardDevice_poll_idle ==
    /\ ~tracker.connected
    /\ tlast' = TCall("KeyboardDevice.poll", "ok", "idle", "would_block", <<>>,
                      tracker, FALSE, <<>>, FALSE)
    /\ UNCHANGED <<tracker, device, adapters>>

\* a KeyboardDevice.poll that returns a report whenever the tracker reports a change
KeyboardDevice_poll_every_event(open_out, sel, rd, batch) ==
    \/ KeyboardDevice_poll_idle
    \/ /\ tracker.connected
       /\ Outcomes(tracker, device, open_out, sel, rd, batch)
       /\ \E p \in {poll_result(tracker, device, open_out, sel, rd, batch)} :
          \E built \in {build_report(p.t.key_state)} :
              /\ tracker' = p.t
              /\ device' = p.d
              /\ adapters' = IF p.ret
                             THEN [adapters EXCEPT !.last_keyset = p.t.key_state,
                                                   !.last_mods = built[2]]
                             ELSE adapters
              /\ tlast' = TCall("KeyboardDevice.poll", open_out, sel, rd, batch,
                                p.t, p.ret, IF p.ret THEN built ELSE <<>>, FALSE)
              /\ InRange(p.t, tlast')

\* KeyboardDevice.poll()
KeyboardDevice_poll(open_out, sel, rd, batch) ==
    \/ KeyboardDevice_poll_idle
    \/ /\ tracker.connected
       /\ Outcomes(tracker, device, open_out, sel, rd, batch)
       /\ \E p \in {poll_result(tracker, device, open_out, sel, rd, batch)} :
          \E built \in {build_report(p.t.key_state)} :
          \E emits \in {/\ p.ret \/ p.t.key_state # adapters.last_keyset
                        /\ \/ p.t.key_state # adapters.last_keyset
                           \/ built[2] # adapters.last_mods} :
              /\ tracker' = p.t
              /\ device' = p.d
              /\ adapters' = IF emits
                             THEN [adapters EXCEPT !.last_keyset = p.t.key_state,
                                                   !.last_mods = built[2]]
                             ELSE adapters
              /\ tlast' = TCall("KeyboardDevice.poll", open_out, sel, rd, batch,
                                p.t, emits, IF emits THEN built ELSE <<>>, FALSE)
              /\ InRange(p.t, tlast')

\* BTN_MAP: the bit position of a button
BTN_MAP(btn) ==
    CASE btn = "BTN_LEFT" -> 0
      [] btn = "BTN_RIGHT" -> 1
      [] btn = "BTN_MIDDLE" -> 2

\* MouseDevice._build_button_mask
RECURSIVE build_button_mask(_)
build_button_mask(btns) ==
    IF btns = {} THEN 0
    ELSE LET btn == CHOOSE x \in btns : TRUE
         IN  BitOr(IF IsButton(btn) THEN 2 ^ BTN_MAP(btn) ELSE 0,
                   build_button_mask(btns \ {btn}))

\* MouseDevice.poll, lines 452-460: dx or dy clamped to -127..127
device_clamp(n) ==
    IF NumLess(n, -127) THEN -127
    ELSE IF NumGreater(n, 127) THEN 127
    ELSE n.lo

\* to_u8_signed: val & 0xFF
to_u8_signed(val) == val % 256

\* the wheel delta a tracker holds: REL_WHEEL falls into the branch for unknown
\* EV_REL codes, nothing is accumulated and no report carries a wheel delta
wheel_delta(t) == 0

\* MouseDevice._consume_motion that leaves the accumulators as they are
consume_motion_keeping(t) == t

\* MouseDevice._consume_motion: the tracker afterwards
consume_motion(t) == [t EXCEPT !.rel_x = Zero, !.rel_y = Zero]

\* a MouseDevice.poll that sends a report whenever it built one
mouse_emits_every_build(consumes, mask, last_mask, dx, dy) ==
    consumes

\* MouseDevice.poll: a report was built (motion pending or the tracker changed) and
\* it is not "same mask, no movement"
mouse_emits(consumes, mask, last_mask, dx, dy) ==
    consumes /\ ~(mask = last_mask /\ dx = 0 /\ dy = 0)

\* MouseDevice.poll() on a disconnected tracker: (False, None)
MouseDevice_poll_idle ==
    /\ ~tracker.connected
    /\ tlast' = TCall("MouseDevice.poll", "ok", "idle", "would_block", <<>>,
                      tracker, FALSE, <<>>, FALSE)
    /\ UNCHANGED <<tracker, device, adapters>>

\* MouseDevice.poll()
MouseDevice_poll(open_out, sel, rd, batch) ==
    \/ MouseDevice_poll_idle
    \/ /\ tracker.connected
       /\ Outcomes(tracker, device, open_out, sel, rd, batch)
       /\ \E p \in {poll_result(tracker, device, open_out, sel, rd, batch)} :
          \E consumes \in {~NumIsZero(p.t.rel_x) \/ ~NumIsZero(p.t.rel_y) \/ p.ret} :
          \E mask \in {build_button_mask(p.t.buttons)} :
          \E dx \in {device_clamp(p.t.rel_x)}, dy \in {device_clamp(p.t.rel_y)} :
          \E emits \in {mouse_emits(consumes, mask, adapters.last_mask, dx, dy)} :
              /\ tracker' = IF consumes THEN consume_motion(p.t) ELSE p.t
              /\ device' = p.d
              /\ adapters' = IF emits THEN [adapters EXCEPT !.last_mask = mask]
                             ELSE adapters
              /\ tlast' = TCall("MouseDevice.poll", open_out, sel, rd, batch, p.t,
                                emits,
                                IF emits
                                THEN <<MOUSE_REPORT_ID, mask % 256,
                                       to_u8_signed(dx), to_u8_signed(dy)>>
                                ELSE <<>>,
                                consumes)
              /\ InRange(p.t, tlast')

\* the device node disappears: the descriptors held on it go dead
Unplug ==
    /\ device.path_exists
    /\ device' = [device EXCEPT !.path_exists = FALSE, !.live = {}]
    /\ tlast' = [tlast EXCEPT !.op = "unplug", !.again = FALSE]
    /\ UNCHANGED <<tracker, adapters>>

\* the device node appears again
Plug ==
    /\ ~device.path_exists
    /\ device' = [device EXCEPT !.path_exists = TRUE]
    /\ tlast' = [tlast EXCEPT !.op = "plug", !.again = FALSE]
    /\ UNCHANGED <<tracker, adapters>>

TrackerInit == NoTracker /\ NoKeyboard /\ NoMouse /\ IdleCharacteristic /\ NoSystem

\* the events read while the connection comes and goes
LifecycleEvents == {Ev(EV_REL, REL_X, 1), Ev(EV_KEY, 30, 1)}

\* the device comes and goes while the tracker and its adapters are polled
TrackerNext ==
    /\ UNCHANGED <<charvars, kbvars, mousevars, dispatch, sysvars>>
    /\ \/ \E open_out \in OpenOutcomes : open(open_out)
       \/ close
       \/ \E open_out \in OpenOutcomes, sel \in SelectOutcomes, rd \in ReadOutcomes,
             batch \in SeqsUpTo(LifecycleEvents, MaxEvents) :
               poll(open_out, sel, rd, batch)
       \/ \E open_out \in OpenOutcomes, sel \in SelectOutcomes, rd \in ReadOutcomes,
             batch \in SeqsUpTo(LifecycleEvents, MaxEvents) :
               KeyboardDevice_poll(open_out, sel, rd, batch)
       \/ \E open_out \in OpenOutcomes, sel \in SelectOutcomes, rd \in ReadOutcomes,
             batch \in SeqsUpTo(LifecycleEvents, MaxEvents) :
               MouseDevice_poll(open_out, sel, rd, batch)
       \/ Unplug
       \/ Plug

SpecTracker == TrackerInit /\ [][TrackerNext]_vars

\* motion and button events
MotionEvents ==
    { Ev(EV_REL, REL_X, 1), Ev(EV_REL, REL_X, -1), Ev(EV_REL, REL_X, 0),
      Ev(EV_REL, REL_Y, 1), Ev(EV_REL, 8, 1),
      Ev(EV_KEY, 272, 1), Ev(EV_KEY, 272, 0) }

\* a present device moves and clicks; the tracker and the mouse adapter are polled
MotionNext ==
    /\ UNCHANGED <<charvars, kbvars, mousevars, dispatch, sysvars>>
    /\ \/ \E sel \in {"ready", "idle"}, rd \in {"events", "would_block"},
             batch \in SeqsUpTo(MotionEvents, MaxMotionEvents) :
               poll("ok", sel, rd, batch)
       \/ \E sel \in {"ready", "idle"}, rd \in {"events", "would_block"},
             batch \in SeqsUpTo(MotionEvents, MaxMotionEvents) :
               MouseDevice_poll("ok", sel, rd, batch)

SpecMotion == TrackerInit /\ [][MotionNext]_vars

\* key and button events: presses, autorepeats, releases, a code without a name,
\* a frame boundary
KeyEvents ==
    { Ev(EV_KEY, 30, 1), Ev(EV_KEY, 30, 2), Ev(EV_KEY, 30, 0),
      Ev(EV_KEY, 48, 1), Ev(EV_KEY, 48, 0),
      Ev(EV_KEY, 272, 1), Ev(EV_KEY, 272, 2), Ev(EV_KEY, 272, 0),
      Ev(EV_KEY, 59, 1), Ev(0, 0, 0) }

\* a present device is typed on; the tracker and the keyboard adapter are polled
KeysNext ==
    /\ UNCHANGED <<charvars, kbvars, mousevars, dispatch, sysvars>>
    /\ \/ \E sel \in {"ready", "idle"}, rd \in {"events", "would_block"},
             batch \in SeqsUpTo(KeyEvents, MaxEvents) :
               poll("ok", sel, rd, batch)
       \/ \E sel \in {"ready", "idle"}, rd \in {"events", "would_block"},
             batch \in SeqsUpTo(KeyEvents, MaxEvents) :
               KeyboardDevice_poll("ok", sel, rd, batch)

SpecKeys == TrackerInit /\ [][KeysNext]_vars

\* the events of a keyboard: presses, autorepeats and releases of keys and modifiers
TickEvents ==
    { Ev(EV_KEY, 30, 1), Ev(EV_KEY, 30, 2), Ev(EV_KEY, 30, 0),
      Ev(EV_KEY, 48, 1), Ev(EV_KEY, 48, 0),
      Ev(EV_KEY, 42, 1), Ev(EV_KEY, 42, 2), Ev(EV_KEY, 42, 0),
      Ev(0, 0, 0) }

\* the keyboard is driven through its adapter only: the device is opened, typed on,
\* unplugged and plugged back, and every tick calls KeyboardDevice.poll
TicksNext ==
    /\ UNCHANGED <<charvars, kbvars, mousevars, dispatch, sysvars>>
    /\ \/ \E open_out \in OpenOutcomes : open(open_out)
       \/ \E sel \in SelectOutcomes, rd \in ReadOutcomes,
             batch \in SeqsUpTo(TickEvents, MaxEvents) :
               KeyboardDevice_poll("ok", sel, rd, batch)
       \/ Unplug
       \/ Plug

SpecTicks == TrackerInit /\ [][TicksNext]_vars

\* a click, a movement and a key going down
MouseTickEvents ==
    { Ev(EV_KEY, 272, 1), Ev(EV_KEY, 272, 0), Ev(EV_REL, REL_X, 1), Ev(EV_KEY, 30, 1) }

\* the mouse through its adapter: the device is opened, moved and clicked,
\* closed, unplugged and plugged back; the ticks call MouseDevice.poll, and the tracker's
\* own poll (which is what reopens a lost device) is called too
MouseTicksNext ==
    /\ UNCHANGED <<charvars, kbvars, mousevars, dispatch, sysvars>>
    /\ \/ \E open_out \in OpenOutcomes : open(open_out)
       \/ close
       \/ \E sel \in SelectOutcomes, rd \in ReadOutcomes,
             batch \in SeqsUpTo(MouseTickEvents, MaxMotionEvents) :
               poll("ok", sel, rd, batch)
       \/ \E sel \in SelectOutcomes, rd \in ReadOutcomes,
             batch \in SeqsUpTo(MouseTickEvents, MaxEvents) :
               MouseDevice_poll("ok", sel, rd, batch)
       \/ Unplug
       \/ Plug

SpecMouseTicks == TrackerInit /\ [][MouseTicksNext]_vars

(***************************************************************************)
(* Construction from the configuration                                     *)
(***************************************************************************)
\* config.get('value', []) of the report characteristic and of its CCCD
\* the interfaces a Properties.Set call names
GattInterfaces == {"org.bluez.GattCharacteristic1", "org.bluez.GattDescriptor1"}

ConfigValues == {<<>>, <<0, 0>>}
ConfigDescValue == <<0, 0>>

\* config.get('flags', []): an input report (no write flag) and an output report
ConfigFlags == {{"read", "notify"}, {"read", "write", "write-without-response"}}

\* HIDCharacteristic.__init__ and HIDDescriptor.__init__: last.arg and last.flag
\* are config['value'] and config.get('notifying', False)
Init ==
    \E cfg_value \in ConfigValues, cfg_notifying \in BOOLEAN :
        /\ flags \in ConfigFlags
        /\ value = to_bytes(cfg_value)
        /\ notifying = cfg_notifying
        /\ desc_value = to_bytes(ConfigDescValue)
        /\ last = [op |-> "init", arg |-> cfg_value, flag |-> cfg_notifying,
                   pre_value |-> <<>>, pre_notifying |-> FALSE,
                   repeat_notified |-> FALSE,
                   signals |-> <<>>, ret |-> <<>>, raised |-> FALSE, error |-> ""]
        /\ NoKeyboard
        /\ NoMouse
        /\ NoTracker
        /\ NoSystem
        /\ structure = ConfigStructure

Next ==
    \/ ReadValue /\ UNCHANGED <<kbvars, mousevars, trvars, sysvars>>
    \/ \E bytes \in ReportValues, bus_ok \in BOOLEAN :
           WriteValue(bytes, bus_ok) /\ UNCHANGED <<kbvars, mousevars, trvars, sysvars>>
    \/ \E bus_ok \in BOOLEAN : StartNotify(bus_ok) /\ UNCHANGED <<kbvars, mousevars, trvars, sysvars>>
    \/ \E bus_ok \in BOOLEAN : StopNotify(bus_ok) /\ UNCHANGED <<kbvars, mousevars, trvars, sysvars>>
    \/ \E bytes \in ReportValues, bus_ok \in BOOLEAN :
           update_value(bytes, bus_ok) /\ UNCHANGED <<kbvars, mousevars, trvars, sysvars>>
    \/ HIDDescriptor_ReadValue /\ UNCHANGED <<kbvars, mousevars, trvars, sysvars>>
    \/ \E bytes \in CccdValues, bus_ok \in BOOLEAN :
           HIDDescriptor_WriteValue(bytes, bus_ok) /\ UNCHANGED <<kbvars, mousevars, trvars, sysvars>>
    \/ \E obj \in {"char", "desc"}, interface \in GattInterfaces,
          prop \in {"UUID", "Flags"}, val \in {"write"} :
           Set(obj, interface, prop, val) /\ UNCHANGED <<kbvars, mousevars, trvars, sysvars>>
    \/ \E characteristic_uuid \in {ConfigStructure.char.uuid, ConfigStructure.desc.uuid},
          enable \in BOOLEAN, bus_ok \in BOOLEAN :
           SetNotify(characteristic_uuid, enable, bus_ok)
               /\ UNCHANGED <<kbvars, mousevars, trvars, sysvars>>

Spec == Init /\ [][Next]_vars

(***************************************************************************)
(* src/ble_peripheral.py: the older HIDCharacteristic and HIDDescriptor    *)
(***************************************************************************)
\* dbus.Byte(v): no masking
Legacy_to_bytes(vs) == [i \in 1..Len(vs) |-> vs[i]]

\* enabled = len(value) >= 1 and value[0] == 0x01
Legacy_enabled(bytes) ==
    Len(bytes) >= 1 /\ bytes[1] = 1

\* set_notifying: self.notifying = enabled
Legacy_set_notifying(cur, enabled) == enabled

Legacy_ReadValue ==
    /\ last' = Call("ReadValue", <<>>, FALSE, <<>>, value, FALSE)
    /\ UNCHANGED <<structure, flags, value, notifying, desc_value>>

Legacy_WriteValue(bytes) ==
    /\ value' = bytes
    /\ last' = Call("WriteValue", bytes, FALSE, <<>>, <<>>, FALSE)
    /\ UNCHANGED <<structure, flags, notifying, desc_value>>

Legacy_StartNotify ==
    /\ notifying' = TRUE
    /\ last' = Call("StartNotify", <<>>, TRUE, <<>>, <<>>, FALSE)
    /\ UNCHANGED <<structure, flags, value, desc_value>>

Legacy_StopNotify ==
    /\ notifying' = FALSE
    /\ last' = Call("StopNotify", <<>>, FALSE, <<>>, <<>>, FALSE)
    /\ UNCHANGED <<structure, flags, value, desc_value>>

\* update_value: the Value signal, attempted on every call while notifying
Legacy_update_value_signals(is_notifying, new_value, bus_ok) ==
    IF is_notifying
    THEN <<Signal("char", "Value", new_value, FALSE, bus_ok)>>
    ELSE <<>>

Legacy_update_value(new_value_bytes, bus_ok) ==
    LET new_value == Legacy_to_bytes(new_value_bytes) IN
    /\ value' = new_value
    /\ last' = Call("update_value", new_value_bytes, FALSE,
                    Legacy_update_value_signals(notifying, new_value, bus_ok),
                    <<>>, FALSE)
    /\ UNCHANGED <<structure, flags, notifying, desc_value>>

Legacy_HIDDescriptor_ReadValue ==
    /\ last' = Call("Desc.ReadValue", <<>>, FALSE, <<>>, desc_value, FALSE)
    /\ UNCHANGED <<structure, flags, value, notifying, desc_value>>

Legacy_HIDDescriptor_WriteValue(bytes) ==
    /\ desc_value' = bytes
    /\ notifying' = Legacy_set_notifying(notifying, Legacy_enabled(bytes))
    /\ last' = Call("Desc.WriteValue", bytes, Legacy_enabled(bytes), <<>>, <<>>, FALSE)
    /\ UNCHANGED <<structure, flags, value>>

LegacyInit ==
    \E cfg_value \in ConfigValues, cfg_notifying \in BOOLEAN :
        /\ flags \in ConfigFlags
        /\ value = Legacy_to_bytes(cfg_value)
        /\ notifying = cfg_notifying
        /\ desc_value = Legacy_to_bytes(ConfigDescValue)
        /\ last = [op |-> "init", arg |-> cfg_value, flag |-> cfg_notifying,
                   pre_value |-> <<>>, pre_notifying |-> FALSE,
                   repeat_notified |-> FALSE,
                   signals |-> <<>>, ret |-> <<>>, raised |-> FALSE, error |-> ""]
        /\ NoKeyboard
        /\ NoMouse
        /\ NoTracker
        /\ NoSystem
        /\ structure = ConfigStructure

LegacyNext ==
    \/ Legacy_ReadValue /\ UNCHANGED <<kbvars, mousevars, trvars, sysvars>>
    \/ \E bytes \in ReportValues : Legacy_WriteValue(bytes) /\ UNCHANGED <<kbvars, mousevars, trvars, sysvars>>
    \/ Legacy_StartNotify /\ UNCHANGED <<kbvars, mousevars, trvars, sysvars>>
    \/ Legacy_StopNotify /\ UNCHANGED <<kbvars, mousevars, trvars, sysvars>>
    \/ \E bytes \in ReportValues, bus_ok \in BOOLEAN :
           Legacy_update_value(bytes, bus_ok) /\ UNCHANGED <<kbvars, mousevars, trvars, sysvars>>
    \/ Legacy_HIDDescriptor_ReadValue /\ UNCHANGED <<kbvars, mousevars, trvars, sysvars>>
    \/ \E bytes \in CccdValues : Legacy_HIDDescriptor_WriteValue(bytes) /\ UNCHANGED <<kbvars, mousevars, trvars, sysvars>>

SpecLegacy == LegacyInit /\ [][LegacyNext]_vars

(***************************************************************************)
(* src/evdev_tracker.py and src/bloxy.py: the older tracker (python-evdev, *)
(* opened at construction) and the dispatch tick update_reports, for the   *)
(* mouse device and the mouse report characteristic                        *)
(***************************************************************************)
\* EvdevTracker.poll, loop body: key_down adds, key_up discards, a held key and
\* any other event change nothing; REL_X and REL_Y add the signed value
Legacy_handle_event(t, ev) ==
    LET name == code_to_name(ev.code)
        val == unpack_value_signed(ev.value)
    IN  IF ev.type = EV_KEY /\ name # ""
        THEN IF ev.value = 1
             THEN IF IsButton(name) THEN [t EXCEPT !.buttons = @ \cup {name}]
                  ELSE [t EXCEPT !.key_state = @ \cup {name}]
             ELSE IF ev.value = 0
             THEN IF IsButton(name) THEN [t EXCEPT !.buttons = @ \ {name}]
                  ELSE [t EXCEPT !.key_state = @ \ {name}]
             ELSE t
        ELSE IF ev.type = EV_REL /\ ev.code = REL_X
        THEN [t EXCEPT !.rel_x = NumAdd(@, val)]
        ELSE IF ev.type = EV_REL /\ ev.code = REL_Y
        THEN [t EXCEPT !.rel_y = NumAdd(@, val)]
        ELSE t

\* EvdevTracker.poll: the tracker after the events of one read
RECURSIVE Legacy_poll_result(_, _)
Legacy_poll_result(t, events) ==
    IF events = <<>> THEN t
    ELSE Legacy_poll_result(Legacy_handle_event(t, Head(events)), Tail(events))

\* update_reports with no mouse report characteristic: the tracker is polled
Legacy_update_reports_no_char(batch) ==
    /\ ~dispatch.mouse_char
    /\ \E t \in {Legacy_poll_result(tracker, batch)} :
           /\ tracker' = t
           /\ tlast' = TCall("update_reports", "ok",
                             IF batch = <<>> THEN "idle" ELSE "ready",
                             IF batch = <<>> THEN "would_block" ELSE "events",
                             batch, t, TRUE, <<>>, FALSE)
           /\ InRange(t, tlast')
    /\ UNCHANGED <<charvars, device, adapters, dispatch>>

\* update_reports: poll, build the mouse report, update_value, reset the deltas
Legacy_update_reports(batch, bus_ok) ==
    \/ Legacy_update_reports_no_char(batch)
    \/ /\ dispatch.mouse_char
       /\ \E t \in {Legacy_poll_result(tracker, batch)} :
          \E m_report \in {Legacy_build_mouse_report(t.buttons, t.rel_x.lo, t.rel_y.lo)} :
              /\ Legacy_update_value(m_report, bus_ok)
              /\ tracker' = [t EXCEPT !.rel_x = Zero, !.rel_y = Zero]
              /\ tlast' = TCall("update_reports", "ok",
                                IF batch = <<>> THEN "idle" ELSE "ready",
                                IF batch = <<>> THEN "would_block" ELSE "events",
                                batch, t, TRUE, m_report, TRUE)
              /\ InRange(t, tlast')
       /\ UNCHANGED <<device, adapters, dispatch>>

\* EvdevTracker.__init__ opens the device; find_hid_chars finds the mouse report
\* characteristic or does not
LegacyDispatchInit ==
    /\ device = [path_exists |-> TRUE, held |-> {3}, live |-> {3}]
    /\ tracker = [fd |-> 3, connected |-> TRUE, key_state |-> {}, buttons |-> {},
                  rel_x |-> Zero, rel_y |-> Zero]
    /\ adapters = [last_keyset |-> {}, last_mods |-> 0, last_mask |-> 0]
    /\ dispatch \in [mouse_char : BOOLEAN]
    /\ tlast = [op |-> "init", again |-> FALSE, open_out |-> "ok", sel |-> "idle", rd |-> "would_block",
                n_events |-> 0, was_connected |-> FALSE,
                was_lost |-> FALSE, lost |-> FALSE,
                pre_fd |-> 0, pre_held |-> {},
                mid_x |-> Zero, mid_y |-> Zero, kept |-> TRUE, moved |-> FALSE,
                new_press |-> FALSE,
                ret |-> FALSE, report |-> <<>>, consumed |-> FALSE, raised |-> FALSE,
                sum_x |-> 0, sum_y |-> 0, sum_wheel |-> 0]
    /\ NoKeyboard
    /\ NoMouse
    /\ IdleCharacteristic
    /\ NoSystem

LegacyDispatchNext ==
    /\ UNCHANGED <<kbvars, mousevars, sysvars>>
    /\ \E batch \in SeqsUpTo(MotionEvents, MaxEvents), bus_ok \in BOOLEAN :
           Legacy_update_reports(batch, bus_ok)

SpecLegacyDispatch == LegacyDispatchInit /\ [][LegacyDispatchNext]_vars

(***************************************************************************)
(* daemon/dbus_utils.py: PeripheralController, and Toggle / GetStatus of    *)
(* HIDPeripheralService (daemon/hid_daemon.py).                            *)
(* RegisterApplication and RegisterAdvertisement are asynchronous: each    *)
(* call in flight gets exactly one reply or one error from the Bluetooth   *)
(* stack, and a NoReply error arms a 2 s timer that registers again.       *)
(***************************************************************************)
\* start() calls made in one run
MaxStarts == 2

\* what the Bluetooth stack answers to a registration call
Replies == {"ok", "AlreadyExists", "NoReply", "Failed"}

\* the record of a call on the controller: its name, what it did, is_on when it
\* began, what it returned, the is_on that the status it emitted carries, and the
\* name and the act of the call before it
CCall(c, op, act, ret, status) ==
    [c EXCEPT !.op = op, !.act = act, !.was_on = controller.is_on,
              !.ret = ret, !.status = status,
              !.prev_op = controller.op, !.prev_act = controller.act]

\* RegisterAdvertisement(reply_handler = _on_adv_registered, error_handler = _on_adv_error)
RegisterAdvertisement(c, g) ==
    [c EXCEPT !.calls = @ \cup {[kind |-> "adv", gen |-> g]},
              !.adv_tried = @ \cup {g}]

\* _emit_ready / _emit_failed: the callback of the subscriber is invoked
emit(c, signal, g) ==
    IF signal = "ready" THEN [c EXCEPT !.ready = @ \cup {g}]
    ELSE [c EXCEPT !.failed = @ \cup {g}]

\* PeripheralController.start: power_on_adapter, set_discoverable_pairable and
\* register_agent catch their own failures; RegisterApplication is sent (sent) or
\* the lookup of the adapter object raises, which start() reports through
\* _emit_failed. is_on is not assigned
start_result(c, power_ok, sent) ==
    LET g == c.gen + 1
        c1 == [c EXCEPT !.gen = g, !.powered = IF power_ok THEN TRUE ELSE @]
    IN  IF sent
        THEN [c |-> [c1 EXCEPT !.calls = @ \cup {[kind |-> "app", gen |-> g]}],
              ret |-> TRUE]
        ELSE [c |-> emit(c1, "failed", g), ret |-> FALSE]

\* PeripheralController.stop: unregister_advertisement, power_off_adapter, is_on = False
stop_result(c, power_off_ok) ==
    [c |-> [c EXCEPT !.is_on = FALSE, !.powered = IF power_off_ok THEN FALSE ELSE @],
     ret |-> power_off_ok]

\* PeripheralController.start()
controller_start(power_ok, sent) ==
    /\ controller.gen < MaxStarts
    /\ \E r \in {start_result(controller, power_ok, sent)} :
           controller' = CCall(r.c, "start", "start", r.ret, FALSE)

\* PeripheralController.stop()
controller_stop(power_off_ok) ==
    \E r \in {stop_result(controller, power_off_ok)} :
        controller' = CCall(r.c, "stop", "stop", r.ret, FALSE)

\* HIDPeripheralService.Toggle: stop if is_on, else start; then StatusUpdated(GetStatus())
Toggle(power_ok, sent, power_off_ok) ==
    /\ controller.is_on \/ controller.gen < MaxStarts
    /\ \E r \in {IF controller.is_on THEN stop_result(controller, power_off_ok)
                 ELSE start_result(controller, power_ok, sent)} :
           controller' = CCall(r.c, "Toggle",
                               IF controller.is_on THEN "stop" ELSE "start",
                               r.ret, r.c.is_on)

\* HIDPeripheralService.GetStatus: _serialize_status reads controller.is_on
GetStatus ==
    controller' = CCall(controller, "GetStatus", "", FALSE, controller.is_on)

\* an _on_app_error that registers the advertisement after every error
on_app_reply_always_advertising(c, g, reply) ==
    IF reply \in {"ok", "AlreadyExists"}
    THEN RegisterAdvertisement([c EXCEPT !.app_ok = @ \cup {g}], g)
    ELSE RegisterAdvertisement([c EXCEPT !.refused = @ \cup {g}], g)

\* _on_app_registered and _on_app_error: success and AlreadyExists go on to
\* RegisterAdvertisement, every other error to _emit_failed
on_app_reply(c, g, reply) ==
    IF reply \in {"ok", "AlreadyExists"}
    THEN RegisterAdvertisement([c EXCEPT !.app_ok = @ \cup {g}], g)
    ELSE emit([c EXCEPT !.refused = @ \cup {g}], "failed", g)

\* _on_adv_registered and _on_adv_error: success and AlreadyExists emit ready,
\* NoReply arms the retry timer, every other error emits failed
on_adv_reply(c, g, reply) ==
    IF reply \in {"ok", "AlreadyExists"}
    THEN emit([c EXCEPT !.adv_ok = @ \cup {g}], "ready", g)
    ELSE IF reply = "NoReply"
    THEN [c EXCEPT !.timers = @ \cup {g}, !.retried = @ \cup {g}]
    ELSE emit([c EXCEPT !.refused = @ \cup {g}], "failed", g)

\* the Bluetooth stack answers a call in flight
Reply(call, reply) ==
    /\ call \in controller.calls
    /\ \E c \in {[controller EXCEPT !.calls = @ \ {call}]} :
           controller' = CCall(IF call.kind = "app"
                               THEN on_app_reply(c, call.gen, reply)
                               ELSE on_adv_reply(c, call.gen, reply),
                               "reply", reply, FALSE, FALSE)

\* _retry_advertisement: the timer fires once and registers the advertisement again
retry_advertisement(g) ==
    /\ g \in controller.timers
    /\ controller' = CCall(RegisterAdvertisement([controller EXCEPT !.timers = @ \ {g}], g),
                           "retry", "", FALSE, FALSE)

ControllerInit ==
    /\ NoKeyboard /\ NoMouse /\ NoTracker /\ IdleCharacteristic
    /\ controller = NoController
    /\ daemon = NoDaemon
    /\ threads = NoThreads
    /\ ui = NoUI

\* the steps the main loop is bound to take: a reply to every call, every timer
ControllerProgress ==
    /\ UNCHANGED <<charvars, kbvars, mousevars, trvars, daemon, threads, ui>>
    /\ \/ \E call \in controller.calls, reply \in Replies : Reply(call, reply)
       \/ \E g \in controller.timers : retry_advertisement(g)

ControllerNext ==
    \/ ControllerProgress
    \/ /\ UNCHANGED <<charvars, kbvars, mousevars, trvars, daemon, threads, ui>>
       /\ \/ \E power_ok \in BOOLEAN, sent \in BOOLEAN : controller_start(power_ok, sent)
          \/ \E power_off_ok \in BOOLEAN : controller_stop(power_off_ok)
          \/ \E power_ok \in BOOLEAN, sent \in BOOLEAN, power_off_ok \in BOOLEAN :
                 Toggle(power_ok, sent, power_off_ok)
          \/ GetStatus

\* D-Bus answers every call (a timeout is the NoReply error) and GLib fires every
\* timer
SpecController ==
    ControllerInit /\ [][ControllerNext]_vars /\ WF_vars(ControllerProgress)

(***************************************************************************)
(* daemon/hid_daemon.py: HIDDaemon. The controller's ready callback sets   *)
(* up the trackers, the service and the 20 ms timer; update_reports is the *)
(* tick; stop() is the shutdown. `tracker` is keyboard_dev, the            *)
(* characteristic of charvars the mouse input report. HIDMouseService is   *)
(* imported from evdev_tracker, which does not define it.                  *)
(***************************************************************************)
\* ready callbacks of the controller in one run
MaxReady == 2

\* characteristic names, as sequences of characters
Name_KeyboardInput ==
    <<"H", "I", "D", " ", "R", "e", "p", "o", "r", "t", " ", "-", " ", "I",
      "n", "p", "u", "t", " ", "(", "K", "e", "y", "b", "o", "a", "r", "d",
      ")">>

Name_MouseInput ==
    <<"H", "I", "D", " ", "R", "e", "p", "o", "r", "t", " ", "-", " ", "I",
      "n", "p", "u", "t", " ", "(", "M", "o", "u", "s", "e", ")">>

Name_ReportMap ==
    <<"R", "e", "p", "o", "r", "t", " ", "M", "a", "p">>

\* the configurations: an input report characteristic for the keyboard and the
\* report map, with or without an input report characteristic for the mouse
Configs == {"keyboard", "keyboard+mouse"}

\* the names of the characteristics of a configuration
ConfigNames(config) ==
    IF config = "keyboard" THEN {Name_KeyboardInput, Name_ReportMap}
    ELSE {Name_KeyboardInput, Name_MouseInput, Name_ReportMap}

\* str.lower
lower(name) ==
    LET upper == <<"A", "B", "C", "D", "E", "F", "G", "H", "I", "J", "K", "L", "M",
                   "N", "O", "P", "Q", "R", "S", "T", "U", "V", "W", "X", "Y", "Z">>
        small == <<"a", "b", "c", "d", "e", "f", "g", "h", "i", "j", "k", "l", "m",
                   "n", "o", "p", "q", "r", "s", "t", "u", "v", "w", "x", "y", "z">>
    IN  [i \in 1..Len(name) |->
            IF \E k \in 1..26 : upper[k] = name[i]
            THEN small[CHOOSE k \in 1..26 : upper[k] = name[i]]
            ELSE name[i]]

\* needle in name
contains(needle, name) ==
    \E i \in 1..(Len(name) - Len(needle) + 1) :
        SubSeq(name, i, i + Len(needle) - 1) = needle

\* _create_dbus_service (service_created is False): the service object is made;
\* keyboard_char is the characteristic whose lower-cased name contains
\* 'HID Report - Input (Keyboard)', mouse_svc a HIDMouseService on the one whose
\* lower-cased name contains 'mouse' and 'report'
create_dbus_service(d) ==
    [d EXCEPT !.daemon_service = TRUE, !.service_created = TRUE,
              !.keyboard_char = \E ch \in ConfigNames(d.config) :
                                   contains(Name_KeyboardInput, lower(ch)),
              !.mouse_svc = \E ch \in ConfigNames(d.config) :
                               /\ ~contains(Name_KeyboardInput, lower(ch))
                               /\ contains(<<"m", "o", "u", "s", "e">>, lower(ch))
                               /\ contains(<<"r", "e", "p", "o", "r", "t">>, lower(ch))]

\* EvdevTracker.__init__: no descriptor, not connected, nothing pressed
NewTracker ==
    [fd |-> 0, connected |-> FALSE, key_state |-> {}, buttons |-> {},
     rel_x |-> Zero, rel_y |-> Zero]

\* _on_controller_ready: _setup_input_devices validates both paths (mouse_valid:
\* the mouse path exists and opens; kb_access: the keyboard path opens) and makes
\* two new trackers, the old keyboard tracker is dropped as it is; then, unless
\* the ready was seen already, the service is made and the timer is added
on_controller_ready(kb_access, mouse_valid) ==
    /\ daemon.readies < MaxReady
    /\ ~device.path_exists => kb_access
    /\ IF ~(device.path_exists /\ kb_access /\ mouse_valid)
       THEN /\ daemon' = [daemon EXCEPT !.op = "ready", !.readies = @ + 1]
            /\ UNCHANGED tracker
       ELSE /\ tracker' = NewTracker
            /\ \E d \in {[daemon EXCEPT !.op = "ready", !.readies = @ + 1,
                                          !.keyboard_dev = TRUE,
                                          !.mouse_dev = TRUE]} :
                   daemon' = IF d.ready_seen THEN d
                             ELSE [create_dbus_service(d) EXCEPT
                                      !.timers = @ + 1, !.ready_seen = TRUE]
    /\ tlast' = [tlast EXCEPT !.op = "ready", !.again = FALSE]
    /\ UNCHANGED <<charvars, device, adapters, dispatch, controller>>

\* HIDMouseService.poll: polls its own mouse tracker and, when there is a report to
\* send (rep is not empty), calls update_value on the mouse characteristic
HIDMouseService_poll(rep, bus_ok) ==
    IF rep = <<>> THEN UNCHANGED charvars ELSE update_value(rep, bus_ok)

\* an update_reports that gives up after an exception
tick_returns_false_on_fault(caught) == ~caught

\* update_reports: "return True" follows the try statement, whose handler catches
\* Exception
tick_returns(caught) == TRUE

\* GLib.timeout_add: the source is removed when the callback returns False
timers_after(n, ret) == IF ret THEN n ELSE n - 1

\* the call before this one was a tick that caught an exception
AfterFault == daemon.op = "update_reports" /\ daemon.tick.caught

\* update_reports, one tick: keyboard_dev.poll(); mouse_svc.poll() if there is a
\* mouse service; the keyboard report if there is a keyboard characteristic, where
\* keyboard_dev.pressed_keys raises AttributeError (the tracker has key_state);
\* one try / except Exception around all of it
update_reports(open_out, sel, rd, batch, rep, bus_ok) ==
    /\ daemon.timers > 0
    /\ UNCHANGED <<adapters, dispatch, controller>>
    /\ IF ~daemon.poll_bound
       THEN /\ open_out = "ok" /\ sel = "idle" /\ rd = "would_block"
            /\ batch = <<>> /\ rep = <<>> /\ bus_ok
            /\ daemon' = [daemon EXCEPT !.op = "update_reports",
                                        !.timers = timers_after(@, tick_returns(TRUE)),
                                        !.tick = [NoTick EXCEPT
                                                     !.caught = TRUE,
                                                     !.ret = tick_returns(TRUE),
                                                     !.after_fault = AfterFault]]
            /\ tlast' = [tlast EXCEPT !.op = "update_reports", !.again = FALSE]
            /\ UNCHANGED <<charvars, tracker, device>>
       ELSE /\ Outcomes(tracker, device, open_out, sel, rd, batch)
            /\ daemon.mouse_svc \/ (rep = <<>> /\ bus_ok)
            /\ rep = <<>> => bus_ok
            /\ \E p \in {poll_result(tracker, device, open_out, sel, rd, batch)} :
                   /\ tracker' = p.t
                   /\ device' = p.d
                   /\ tlast' = [tlast EXCEPT !.op = "update_reports", !.again = FALSE]
                   /\ daemon' = [daemon EXCEPT
                          !.op = "update_reports",
                          !.timers = timers_after(@, tick_returns(daemon.keyboard_char)),
                          !.tick = [kb_polled |-> TRUE, kb_changed |-> p.ret,
                                    kb_pushed |-> FALSE,
                                    mouse_polled |-> daemon.mouse_svc,
                                    mouse_pushed |-> daemon.mouse_svc /\ rep # <<>>,
                                    caught |-> daemon.keyboard_char,
                                    ret |-> tick_returns(daemon.keyboard_char),
                                    after_fault |-> AfterFault]]
            /\ IF daemon.mouse_svc THEN HIDMouseService_poll(rep, bus_ok)
               ELSE UNCHANGED charvars

\* HIDDaemon.stop: the service is removed from the bus and the flags are reset,
\* controller.stop(); the trackers are not closed and the timer is not removed
HIDDaemon_stop(power_off_ok) ==
    /\ daemon' = [daemon EXCEPT !.op = "stop",
                     !.daemon_service = FALSE,
                     !.service_created = IF daemon.daemon_service THEN FALSE ELSE @,
                     !.ready_seen = IF daemon.daemon_service THEN FALSE ELSE @]
    /\ controller' = stop_result(controller, power_off_ok).c
    /\ tlast' = [tlast EXCEPT !.op = "stop", !.again = FALSE]
    /\ UNCHANGED <<charvars, tracker, device, adapters, dispatch>>

\* HIDCharacteristic.WriteValue called by the host on the keyboard input report
\* characteristic
host_write_keyboard(bytes) ==
    /\ daemon' = [daemon EXCEPT !.op = "WriteValue", !.kb_value = to_bytes(bytes)]
    /\ tlast' = [tlast EXCEPT !.op = "WriteValue", !.again = FALSE]
    /\ UNCHANGED <<charvars, tracker, device, adapters, dispatch, controller>>

\* PeripheralController._send_dummy_reports, when a host connects: update_value
\* with eight zero bytes on the characteristic whose lower-cased name contains
\* 'keyboard' and 'report', with four on the one that contains 'mouse' and 'report'
send_dummy_reports(bus_ok) ==
    /\ daemon' = [daemon EXCEPT
                     !.op = "dummy",
                     !.kb_value =
                         IF \E ch \in ConfigNames(daemon.config) :
                                /\ contains(<<"k", "e", "y", "b", "o", "a", "r", "d">>,
                                            lower(ch))
                                /\ contains(<<"r", "e", "p", "o", "r", "t">>, lower(ch))
                         THEN update_value_store(@, <<0, 0, 0, 0, 0, 0, 0, 0>>)
                         ELSE @]
    /\ IF \E ch \in ConfigNames(daemon.config) :
              /\ ~contains(<<"k", "e", "y", "b", "o", "a", "r", "d">>, lower(ch))
              /\ contains(<<"m", "o", "u", "s", "e">>, lower(ch))
              /\ contains(<<"r", "e", "p", "o", "r", "t">>, lower(ch))
       THEN update_value(<<0, 0, 0, 0>>, bus_ok)
       ELSE bus_ok /\ UNCHANGED charvars
    /\ tlast' = [tlast EXCEPT !.op = "dummy", !.again = FALSE]
    /\ UNCHANGED <<tracker, device, adapters, dispatch, controller>>

\* main(): the configuration is loaded and the daemon is constructed
DaemonInit ==
    /\ NoKeyboard /\ NoMouse /\ NoTracker /\ IdleCharacteristic
    /\ controller = NoController
    /\ \E config \in Configs, poll_bound \in BOOLEAN :
           daemon = [NoDaemon EXCEPT !.config = config, !.poll_bound = poll_bound]
    /\ threads = NoThreads
    /\ ui = NoUI

\* the events of the keyboard while the daemon runs
DaemonEvents == { Ev(EV_KEY, 30, 1), Ev(EV_KEY, 30, 0) }

\* the report a mouse service has to send, if any
MouseReports == {<<>>, <<2, 1, 0, 0>>}

DaemonNext ==
    /\ UNCHANGED <<kbvars, mousevars, threads, ui>>
    /\ \/ \E kb_access \in BOOLEAN, mouse_valid \in BOOLEAN :
              on_controller_ready(kb_access, mouse_valid)
       \/ \E open_out \in OpenOutcomes, sel \in SelectOutcomes, rd \in ReadOutcomes,
             batch \in {<<>>} \cup {<<e>> : e \in DaemonEvents},
             rep \in MouseReports, bus_ok \in BOOLEAN :
              update_reports(open_out, sel, rd, batch, rep, bus_ok)
       \/ \E power_off_ok \in BOOLEAN : HIDDaemon_stop(power_off_ok)
       \/ Unplug /\ UNCHANGED <<charvars, dispatch, daemon, controller>>
       \/ Plug /\ UNCHANGED <<charvars, dispatch, daemon, controller>>

SpecDaemon == DaemonInit /\ [][DaemonNext]_vars

\* the running daemon with a host: ticks interleaved with the host's writes to the
\* keyboard characteristic and with the dummy reports sent when a host connects
DaemonHostNext ==
    /\ UNCHANGED <<kbvars, mousevars, threads, ui>>
    /\ \/ \E kb_access \in BOOLEAN, mouse_valid \in BOOLEAN :
              on_controller_ready(kb_access, mouse_valid)
       \/ \E sel \in SelectOutcomes, rd \in ReadOutcomes,
             batch \in {<<>>} \cup {<<e>> : e \in DaemonEvents},
             rep \in MouseReports, bus_ok \in BOOLEAN :
              update_reports("ok", sel, rd, batch, rep, bus_ok)
       \/ host_write_keyboard(<<0, 0, 5, 0, 0, 0, 0, 0>>)
       \/ \E bus_ok \in BOOLEAN : send_dummy_reports(bus_ok)

SpecDaemonHost == DaemonInit /\ [][DaemonHostNext]_vars

(***************************************************************************)
(* Threads. The GLib main loop runs the D-Bus method handlers and the      *)
(* 20 ms tick, one callback at a time; repl_loop runs in a thread of its   *)
(* own and its "status" command reads the characteristic through           *)
(* GetStatus. No lock is taken anywhere. A callback of the main loop is    *)
(* modelled in two steps, the assignment of the attribute and the          *)
(* emission of PropertiesChanged; the status read in two steps, the read   *)
(* of ch.value and the read of ch.notifying.                               *)
(***************************************************************************)
\* the operations of the main loop that assign self.value, and those that assign
\* self.notifying through set_notifying
ValueOps == {"update_value", "WriteValue"}
NotifyOps == {"StartNotify", "StopNotify", "SetNotify"}

\* the reports written while the status is read
ThreadValues == {<<1, 0>>, <<2, 0>>}

\* first half of update_value / WriteValue / set_notifying on the main loop: the
\* attribute is assigned. update_value returns before that when the bytes are the
\* stored ones, set_notifying when the flag is the stored one
main_store(op, bytes, enabled, bus_ok) ==
    /\ threads.main = "idle"
    /\ IF op \in ValueOps
       THEN /\ enabled
            /\ IF op = "update_value" /\ to_bytes(bytes) = value
               THEN update_value(bytes, bus_ok) /\ UNCHANGED threads
               ELSE /\ value' = to_bytes(bytes)
                    /\ last' = Call(op, bytes, FALSE, <<>>, <<>>, FALSE)
                    /\ threads' = [threads EXCEPT !.main = "emit", !.op = op,
                                                  !.bus_ok = bus_ok]
                    /\ UNCHANGED <<structure, flags, notifying, desc_value>>
       ELSE /\ bytes = <<1, 0>>
            /\ notifying' = set_notifying_flag(notifying, enabled)
            /\ last' = Call(op, <<>>, enabled, <<>>, <<>>, FALSE)
            /\ threads' = IF notifying = enabled THEN threads
                          ELSE [threads EXCEPT !.main = "emit", !.op = op,
                                               !.bus_ok = bus_ok]
            /\ UNCHANGED <<structure, flags, value, desc_value>>

\* second half: update_property emits PropertiesChanged with the attribute as it
\* is read now
main_emit ==
    /\ threads.main = "emit"
    /\ last' = [last EXCEPT !.signals =
                   IF threads.op \in ValueOps
                   THEN update_property("char", "Value", value, FALSE, threads.bus_ok)
                   ELSE update_property("char", "Notifying", <<>>, notifying,
                                        threads.bus_ok)]
    /\ threads' = [threads EXCEPT !.main = "idle"]
    /\ UNCHANGED <<structure, flags, value, notifying, desc_value>>

\* repl_loop "status" -> GetStatus -> _serialize_status: ch.value is read
serialize_status_value ==
    /\ threads.repl = "idle"
    /\ threads' = [threads EXCEPT !.repl = "value_read", !.snapshot.value = value]
    /\ UNCHANGED charvars

\* _serialize_status: ch.notifying is read, the status is complete
serialize_status_notifying ==
    /\ threads.repl = "value_read"
    /\ threads' = [threads EXCEPT !.repl = "idle", !.snapshot.notifying = notifying]
    /\ UNCHANGED charvars

ThreadsInit ==
    /\ NoKeyboard /\ NoMouse /\ NoTracker /\ IdleCharacteristic
    /\ controller = NoController /\ daemon = NoDaemon /\ threads = NoThreads
    /\ ui = NoUI

ThreadsNext ==
    /\ UNCHANGED <<kbvars, mousevars, trvars, controller, daemon, ui>>
    /\ \/ \E op \in ValueOps \cup NotifyOps, bytes \in ThreadValues,
             enabled \in BOOLEAN, bus_ok \in BOOLEAN :
              main_store(op, bytes, enabled, bus_ok)
       \/ main_emit
       \/ serialize_status_value
       \/ serialize_status_notifying

SpecThreads == ThreadsInit /\ [][ThreadsNext]_vars

(***************************************************************************)
(* Claims about the characteristic state machine                           *)
(***************************************************************************)
IsUpdate == last.op = "update_value"

\* C1: update_value attempts a Value PropertiesChanged signal only if the
\* characteristic was Notifying when called and the new bytes differ from the
\* stored value.
C1_NotifyOnlyWhenNotifyingAndChanged ==
    (IsUpdate /\ ValueSignals(last.signals) # <<>>)
        => (last.pre_notifying /\ last.arg # last.pre_value)

\* C2: update_value with the bytes already stored changes neither Value nor
\* Notifying and emits nothing, so the second of two consecutive update_value
\* calls with identical bytes never adds a second notify.
C2_SameBytesIsNoOp ==
    /\ (IsUpdate /\ last.arg = last.pre_value)
           => /\ last.signals = <<>>
              /\ value = last.pre_value
              /\ notifying = last.pre_notifying
    /\ (IsUpdate /\ last.repeat_notified) => ValueSignals(last.signals) = <<>>

\* C3: update_value on an Active characteristic with bytes that differ from the
\* stored value stores the new bytes and attempts exactly one signal, a Value
\* signal carrying the new bytes; whether or not the emission fails, the store
\* stands and nothing is raised.
C3_ActiveUpdateStoresAndNotifiesOnce ==
    (IsUpdate /\ last.pre_notifying /\ last.arg # last.pre_value)
        => /\ value = last.arg
           /\ Len(last.signals) = 1
           /\ ValueSignals(last.signals) = last.signals
           /\ last.signals[1].val = last.arg
           /\ ~last.raised

C3_Witness_FailedEmission ==
    /\ IsUpdate /\ last.pre_notifying /\ last.arg # last.pre_value
    /\ last.signals # <<>> /\ ~last.signals[1].ok
    /\ value = last.arg

\* C4: the characteristic starts with Notifying as the configuration gives it
\* (Idle by default); StartNotify, or a CCCD write whose byte 0 has bit 0 set,
\* leaves it Active; StopNotify, or a CCCD write whose byte 0 has bit 0 clear,
\* leaves it Idle, whatever the state before.
C4_NotifyingTransitions ==
    /\ last.op = "init" => notifying = last.flag
    /\ last.op = "StartNotify" => notifying
    /\ last.op = "StopNotify" => ~notifying
    /\ (last.op = "Desc.WriteValue" /\ Len(last.arg) >= 1)
           => (notifying <=> last.arg[1] % 2 = 1)

C4_Witness_CccdBackToIdle ==
    /\ last.op = "Desc.WriteValue" /\ last.arg = <<0, 0>>
    /\ last.pre_notifying /\ ~notifying

\* C5: after a CCCD WriteValue, Notifying depends only on bit 0 of byte 0 of the
\* written bytes (so [2,0] leaves Idle and [3,0] leaves Active), the written
\* bytes are stored, and a CCCD ReadValue returns the stored bytes.
C5_CccdBit0Only ==
    /\ last.op = "Desc.WriteValue"
           => /\ notifying <=> (Len(last.arg) >= 1 /\ last.arg[1] % 2 = 1)
              /\ desc_value = last.arg
    /\ last.op = "Desc.ReadValue" => last.ret = desc_value

C5_Witness_IndicateBit ==
    /\ last.op = "Desc.WriteValue" /\ last.arg = <<3, 0>>
    /\ ~last.pre_notifying /\ notifying /\ desc_value = <<3, 0>>

\* C6: ReadValue returns the stored Value and changes no state; StartNotify,
\* StopNotify and CCCD writes leave the stored Value as it was.
C6_ReadIsPure_TransitionsKeepValue ==
    [][ /\ last'.op = "ReadValue"
            => (last'.ret = value /\ UNCHANGED <<structure, flags, value, notifying, desc_value>>)
        /\ last'.op \in {"StartNotify", "StopNotify", "Desc.WriteValue"}
            => value' = value ]_vars

C6_Witness_ReadAfterStop ==
    /\ last.op = "ReadValue" /\ last.ret = <<7>>
    /\ ~notifying /\ desc_value = <<1, 0>>

\* C7: a host WriteValue stores exactly the written bytes, whatever the flags
\* and the Notifying state, and leaves Notifying unchanged.
C7_WriteStoresUnconditionally ==
    last.op = "WriteValue" => (value = last.arg /\ notifying = last.pre_notifying)

C7_Witness_WriteWithoutWriteFlag ==
    /\ last.op = "WriteValue" /\ "write" \notin flags
    /\ last.arg = <<7, 0>> /\ value = <<7, 0>> /\ notifying

(***************************************************************************)
(* Claims about the keyboard report                                        *)
(***************************************************************************)
PressedSet == Range(pressed_keys)
NonModifierPressed == PressedSet \ ModifierKeys
AllMapped == \A key \in NonModifierPressed : keyboard_map(key) # 0
Built == report.by # "none"

\* the usages of a sorted key sequence
Usages(keys) == [i \in 1..Len(keys) |-> keyboard_map(keys[i])]

\* the first n elements of a sequence
FirstN(seq, n) == SubSeq(seq, 1, IF Len(seq) < n THEN Len(seq) ELSE n)

\* the HID modifier bitmap of a set of keys: one bit per modifier key
RECURSIVE ModifierBitmap(_)
ModifierBitmap(keys) ==
    IF keys = {} THEN 0
    ELSE LET k == CHOOSE x \in keys : TRUE
         IN  modifiers(k) + ModifierBitmap(keys \ {k})

\* the six key bytes of a report: its last six bytes
KeyBytes(bytes) == SubSeq(bytes, Len(bytes) - 5, Len(bytes))

NonZero(bytes) == SelectSeq(bytes, LAMBDA b : b # 0)

\* the modifier byte of a report: byte 0, or byte 1 behind a report id
ModifierByte == IF report.by = "device" THEN report.bytes[2] ELSE report.bytes[1]

\* the bit the builder that made the report gives a modifier key
BuilderBit(key) ==
    IF report.by = "device" THEN device_modifier_bit(key) ELSE modifiers(key)

\* C8: for at most 6 pressed non-modifier keys, all mapped, the report is exactly
\* the 8 bytes [modifierBitmap, 0, k1..k6] with the usages of the pressed keys in
\* sorted key order and zero padding, whatever the order the keys are iterated in.
C8_ReportIsSortedEightBytes ==
    (Built /\ AllMapped /\ Cardinality(NonModifierPressed) <= 6)
        => report.bytes = <<ModifierBitmap(PressedSet \cap ModifierKeys), 0>>
                              \o pad6(Usages(sorted(NonModifierPressed)))

\* C9: for more than 6 pressed non-modifier keys, all mapped, the key bytes hold
\* exactly 6 non-zero usages, those of the first six keys in sorted key order.
C9_OverflowKeepsSortedFirstSix ==
    (Built /\ AllMapped /\ Cardinality(NonModifierPressed) > 6)
        => /\ Len(NonZero(KeyBytes(report.bytes))) = 6
           /\ Range(KeyBytes(report.bytes))
                  = Range(Usages(FirstN(sorted(NonModifierPressed), 6)))

\* C10: the modifier byte is the OR of the bits of the pressed modifier keys, and
\* every modifier key has a bit of its own, so the byte decodes to exactly the
\* pressed modifier keys.
C10_ModifierByteDecodes ==
    Built
        => {key \in ModifierKeys : HasBits(ModifierByte, BuilderBit(key))}
               = PressedSet \cap ModifierKeys

\* the pressed keys that have a usage, in the order they are iterated
MappedKeys(keys) == SelectSeq(keys, LAMBDA key : keyboard_map(key) # 0)

\* the report the builder that made the report builds from other keys
RebuiltFrom(keys) ==
    CASE report.by = "builder" -> build_keyboard_report_bytes(keys)
      [] report.by = "device" -> build_report(Range(keys))
      [] OTHER -> Legacy_build_keyboard_report(keys)

\* C11: a pressed key without a usage takes no report slot: the key bytes equal
\* those built from the pressed keys with the unmapped ones removed, and as many
\* usages are reported as there are mapped keys pressed, up to 6.
C11_UnmappedKeysTakeNoSlot ==
    Built
        => /\ KeyBytes(report.bytes)
                  = KeyBytes(RebuiltFrom(MappedKeys(pressed_keys)))
           /\ Len(NonZero(KeyBytes(report.bytes)))
                  = (IF Len(MappedKeys(pressed_keys)) < 6
                     THEN Len(MappedKeys(pressed_keys)) ELSE 6)

\* two unmapped keys iterated first, six mapped keys after them, all six reported
C11_Witness_UnmappedBeforeSixMapped ==
    /\ report.by \in {"builder", "device"}
    /\ Len(pressed_keys) = 8
    /\ keyboard_map(pressed_keys[1]) = 0
    /\ keyboard_map(pressed_keys[2]) = 0
    /\ Len(NonZero(KeyBytes(report.bytes))) = 6

(***************************************************************************)
(* Claims about the mouse report                                           *)
(***************************************************************************)
MouseBuilt == mouse_report.by # "none"

\* the two's-complement byte of a delta clamped to -127..127
ClampedByte(d) ==
    IF d >= 127 THEN 127
    ELSE IF d <= -127 THEN 129
    ELSE IF d >= 0 THEN d ELSE 256 + d

\* C12: the report byte of a delta d is the two's-complement byte of d clamped to
\* -127..127 (0x7F from 127 up, 0x81 from -127 down, 0x00 for 0), never 0x80.
C12_DeltaClampedToSignedByte ==
    MouseBuilt
        => /\ mouse_report.bytes[2] = ClampedByte(mouse_in.rel_x)
           /\ mouse_report.bytes[3] = ClampedByte(mouse_in.rel_y)
           /\ mouse_report.bytes[2] # 128
           /\ mouse_report.bytes[3] # 128

\* the button byte the fixed name->bit table gives a set of buttons
RECURSIVE ButtonBitmap(_)
ButtonBitmap(btns) ==
    IF btns = {} THEN 0
    ELSE LET btn == CHOOSE x \in btns : TRUE
         IN  mouse_map(btn) + ButtonBitmap(btns \ {btn})

\* the clamped two's-complement byte of an accumulator
AccumulatorByte(n) ==
    IF n.hi > 0 THEN 127 ELSE IF n.hi < 0 THEN 129 ELSE ClampedByte(n.lo)

MouseDeviceBuilt == tlast.op = "MouseDevice.poll" /\ tlast.report # <<>>

\* C13: a mouse report is 4 bytes (5 with a wheel byte) [buttonBitmap, dx, dy,
\* (wheel)]: byte 0 is the OR of the table bits of the pressed buttons, bytes 1
\* and 2 are the encoded dx and dy.
C13_MouseReportLayout ==
    /\ mouse_report.by = "builder"
           => /\ Len(mouse_report.bytes) \in {4, 5}
              /\ mouse_report.bytes[1] = ButtonBitmap(mouse_in.buttons)
              /\ mouse_report.bytes[2] = ClampedByte(mouse_in.rel_x)
              /\ mouse_report.bytes[3] = ClampedByte(mouse_in.rel_y)
    /\ MouseDeviceBuilt
           => /\ Len(tlast.report) \in {4, 5}
              /\ tlast.report[1] = ButtonBitmap(tracker.buttons)
              /\ tlast.report[2] = AccumulatorByte(tlast.mid_x)
              /\ tlast.report[3] = AccumulatorByte(tlast.mid_y)

(***************************************************************************)
(* Claims about the tracker and its adapters                               *)
(***************************************************************************)
\* the last call built a mouse report from the accumulators
BuiltFromMotion ==
    tlast.op \in {"MouseDevice.poll", "update_reports"} /\ tlast.report # <<>>

\* C14: the accumulators are zeroed exactly once per consuming build: after a
\* mouse report is built rel_x and rel_y are both 0, so a delta goes into at most
\* one report; a call that builds no mouse report leaves them as the tracker's
\* poll left them.
C14_AccumulatorZeroedOncePerBuild ==
    /\ BuiltFromMotion
           => tracker.rel_x = Zero /\ tracker.rel_y = Zero /\ tlast.consumed
    /\ ~BuiltFromMotion
           => tracker.rel_x = tlast.mid_x /\ tracker.rel_y = tlast.mid_y

\* a report built from pending motion, the accumulators zero afterwards
C14_Witness_MotionConsumed ==
    /\ BuiltFromMotion
    /\ ~NumIsZero(tlast.mid_x)
    /\ tracker.rel_x = Zero

\* C15: between two consuming builds every relative-motion event adds its signed
\* value to its accumulator: rel_x, rel_y and the wheel delta are the signed sums
\* of the REL_X, REL_Y and wheel values read since they were last zeroed.
C15_AccumulatorsAreSignedSums ==
    /\ tracker.rel_x = Num(0, tlast.sum_x)
    /\ tracker.rel_y = Num(0, tlast.sum_y)
    /\ wheel_delta(tracker) = tlast.sum_wheel

\* os.open was reached and failed, or the path was missing
OpenFailed == ~device.path_exists \/ tlast.open_out # "ok"

\* C16: open() is idempotent and never raises: on an open tracker it opens no
\* second descriptor and changes nothing; when the path is missing or os.open
\* fails the tracker is left disconnected, holding no descriptor.
C16_OpenIsIdempotentAndSafe ==
    tlast.op = "open"
        => /\ ~tlast.raised
           /\ tlast.pre_fd # 0
                  => /\ tracker.fd = tlast.pre_fd
                     /\ tracker.connected = tlast.was_connected
                     /\ device.held = tlast.pre_held
                     /\ tlast.kept
           /\ (tlast.pre_fd = 0 /\ OpenFailed)
                  => /\ ~tracker.connected
                     /\ tracker.fd = 0
                     /\ fileno(tracker) = -1
                     /\ device.held = tlast.pre_held

\* open() called on a tracker that is already open
C16_Witness_OpenOnOpenTracker ==
    /\ tlast.op = "open"
    /\ tlast.pre_fd # 0
    /\ tracker.fd = tlast.pre_fd
    /\ Cardinality(device.held) = 1

\* C17: poll() on a disconnected tracker first tries to reopen the device; while
\* the device stays unavailable it returns False and leaves key, button and motion
\* state as they were; when the reopen succeeds the same call reads the pending
\* events.
C17_PollReopensFirst ==
    (tlast.op = "poll" /\ ~tlast.was_connected)
        => /\ ~tracker.connected => (~tlast.ret /\ tlast.kept)
           /\ (~OpenFailed /\ tlast.rd \in {"events", "would_block"})
                  => tracker.connected
           /\ (~OpenFailed /\ tlast.rd = "events")
                  => (tlast.n_events > 0 /\ tlast.ret)

\* a poll that found the tracker disconnected, reopened it and read events
C17_Witness_ReopenedAndDrained ==
    /\ tlast.op = "poll"
    /\ ~tlast.was_connected
    /\ tracker.connected
    /\ tlast.n_events > 0
    /\ tlast.ret

\* C18: a read error or a zero-length read during poll() is a device removal: the
\* descriptor is closed, the tracker is disconnected, poll() returns False and
\* raises nothing.
C18_ReadFailureDisconnects ==
    (tlast.op = "poll" /\ tlast.rd \in {"os_error", "error", "eof"})
        => /\ tracker.fd = 0
           /\ ~tracker.connected
           /\ device.held = {}
           /\ ~tlast.ret
           /\ ~tlast.raised

\* a poll of a connected tracker whose read returned zero bytes
C18_Witness_ZeroLengthRead ==
    /\ tlast.op = "poll"
    /\ tlast.was_connected
    /\ tlast.rd = "eof"
    /\ ~tracker.connected

\* C19: after a failed read has disconnected the tracker, a poll made directly or
\* through the KeyboardDevice / MouseDevice adapters while the device path is
\* available and opening it succeeds reconnects the tracker.
C19_PollReconnects ==
    (/\ tlast.op \in {"poll", "KeyboardDevice.poll", "MouseDevice.poll"}
     /\ tlast.was_lost
     /\ ~OpenFailed
     /\ tlast.rd \in {"events", "would_block"})
        => tracker.connected

\* C20: poll() returns True exactly when key, button or motion state changed
\* during the call; an autorepeat of a pressed key or button and a release of one
\* that is not pressed make no change.
C20_ReturnsTrueIffStateChanged ==
    tlast.op = "poll" => (tlast.ret = tlast.moved)

\* C26: no operation on the characteristic or its descriptor changes a UUID, the
\* flags, the owning service, the descriptor list or the descriptor's
\* characteristic: only Value and Notifying change after construction.
C26_StructureIsFrozen ==
    [][structure' = structure /\ flags' = flags]_vars

\* a Properties.Set was refused after the value and the Notifying flag had changed
C26_Witness_SetRefused ==
    /\ last.op = "Set"
    /\ last.raised
    /\ last.error = "org.freedesktop.DBus.Error.PropertyReadOnly"
    /\ notifying
    /\ value # <<>>

\* C27: the value of the 0x2902 descriptor is always exactly 2 bytes, and so is
\* what its ReadValue returns.
C27_CccdValueIsTwoBytes ==
    /\ Len(desc_value) = 2
    /\ last.op = "Desc.ReadValue" => Len(last.ret) = 2

\* a tick of the keyboard: a call of KeyboardDevice.poll
KeyboardTick == tlast.op = "KeyboardDevice.poll"

Started == 1..controller.gen

\* C28: after start() the controller reaches a completion signal, ready or failed,
\* whatever the Bluetooth stack answers, repeated NoReply timeouts included.
C28_RegistrationTerminates ==
    \A g \in 1..MaxStarts :
        (g \in Started) ~> (g \in controller.ready \cup controller.failed)

\* C29 as stated: ready only after the advertisement was registered or reported
\* AlreadyExists, the advertisement only after the application was registered or
\* reported AlreadyExists, every other application or advertisement error invokes
\* the failed callback, and no start() gets both callbacks.
C29_RegistrationOrdering ==
    \A g \in Started :
        /\ g \in controller.ready => g \in controller.adv_ok
        /\ g \in controller.adv_tried => g \in controller.app_ok
        /\ g \in controller.refused \cup controller.retried => g \in controller.failed
        /\ ~(g \in controller.ready /\ g \in controller.failed)

\* C29 amended: as stated, except that a NoReply error of the advertisement
\* registration invokes no callback (the registration is tried again); every error
\* other than AlreadyExists and that NoReply invokes the failed callback.
C29_RegistrationOrdering_NoReplyRetries ==
    \A g \in Started :
        /\ g \in controller.ready => g \in controller.adv_ok
        /\ g \in controller.adv_tried => g \in controller.app_ok
        /\ g \in controller.refused => g \in controller.failed
        /\ ~(g \in controller.ready /\ g \in controller.failed)

\* one start() ended ready after a NoReply and a retry, another failed on an error
C29_Witness_ReadyAndFailedRuns ==
    /\ controller.ready \cap controller.retried # {}
    /\ controller.refused # {}
    /\ controller.failed # {}

\* C30: Toggle stops a controller that is on and starts one that is off, the is_on
\* of the status it emits is the result, is_on is true after a successful start(),
\* and two consecutive Toggle calls make one start and one stop.
C30_ToggleSwitchesOnAndOff ==
    /\ controller.op = "Toggle"
           => /\ controller.act = (IF controller.was_on THEN "stop" ELSE "start")
              /\ controller.status = (controller.act = "start" /\ controller.ret)
    /\ (controller.op \in {"start", "Toggle"} /\ controller.act = "start" /\ controller.ret)
           => controller.is_on
    /\ (controller.op = "Toggle" /\ controller.prev_op = "Toggle")
           => {controller.act, controller.prev_act} = {"start", "stop"}

\* a tick of the daemon
DaemonTick == daemon.op = "update_reports"

\* C22: a fault raised while one device is processed is caught for that device
\* only: the other device is still polled in the same tick.
C22_FaultIsolatedPerDevice ==
    (DaemonTick /\ daemon.tick.caught /\ ~daemon.tick.kb_polled /\ daemon.mouse_svc)
        => daemon.tick.mouse_polled

\* C23: in every tick in which the keyboard tracker reports a change the keyboard
\* report is built and handed to update_value on the keyboard input report
\* characteristic.
C23_ChangeReachesCharacteristic ==
    (DaemonTick /\ daemon.tick.kb_changed) => daemon.tick.kb_pushed

C24_MutualExclusion ==
    ~(threads.main = "emit" /\ threads.repl = "value_read")

\* the Notifying signals of the characteristic among the signals of a call
NotifyingSignals(signals) ==
    SelectSeq(signals, LAMBDA sg : sg.obj = "char" /\ sg.prop = "Notifying")

\* the calls that reach set_notifying
SetNotifyingCalls == {"StartNotify", "StopNotify", "SetNotify", "Desc.WriteValue"}

\* C31: set_notifying is idempotent: a call that reaches it emits one Notifying
\* signal when the flag changes and none when the flag already has the asked
\* value, so repeated StartNotify calls or CCCD writes with the same bit 0 emit
\* no further signal.
C31_SetNotifyingIdempotent ==
    last.op \in SetNotifyingCalls
        => Len(NotifyingSignals(last.signals))
               = (IF last.pre_notifying # notifying THEN 1 ELSE 0)

\* a StartNotify on a characteristic that was notifying already, and a CCCD write
\* of bit 0 = 1 in the same situation, emitted nothing
C31_Witness_RepeatedStartNotify ==
    /\ last.op \in {"StartNotify", "Desc.WriteValue", "SetNotify"}
    /\ last.flag /\ last.pre_notifying /\ notifying
    /\ NotifyingSignals(last.signals) = <<>>

\* C37: the characteristic's Notifying flag equals bit 0 of byte 0 of the stored
\* value of its CCCD descriptor in every state reached from a configuration where
\* they agree: no operation of the characteristic or of its descriptor takes a
\* state where they agree to one where they differ.
CccdAgrees ==
    notifying <=> (Len(desc_value) >= 1 /\ desc_value[1] % 2 = 1)

C37_NotifyingEqualsCccdBit == [][CccdAgrees => CccdAgrees']_vars

\* a step that is a call of MouseDevice.poll
MousePolled == tlast'.op = "MouseDevice.poll"

\* the mask of the buttons held after the call differs from the last emitted one
MaskDiffers == build_button_mask(tracker'.buttons) # adapters.last_mask

\* the motion the call found, clamped, is not zero
MotionPending ==
    device_clamp(tlast'.mid_x) # 0 \/ device_clamp(tlast'.mid_y) # 0

\* what holds of every call whatever decides the report
MouseReportFrame ==
    /\ MousePolled =>
          /\ ~tlast'.ret => tlast'.report = <<>>
          /\ tlast'.ret => adapters'.last_mask = build_button_mask(tracker'.buttons)
    /\ adapters'.last_mask # adapters.last_mask => (MousePolled /\ tlast'.ret)

Disconnects == tracker.connected /\ ~tracker'.connected

\* C39: marking the tracker disconnected leaves key_state, buttons, rel_x and
\* rel_y as they are, and the pressed sets change only when events are drained:
\* what was held at the removal stays held while the device is absent and after
\* it is opened again.
C39_DisconnectKeepsState ==
    [][ /\ Disconnects =>
            /\ tracker'.key_state = tracker.key_state
            /\ tracker'.buttons = tracker.buttons
            /\ tlast'.kept
            /\ tlast'.consumed \/ Observable(tracker') = Observable(tracker)
        /\ (tracker'.key_state # tracker.key_state \/ tracker'.buttons # tracker.buttons)
              => (tlast'.rd = "events" /\ tlast'.n_events > 0 /\ tracker'.connected)
      ]_vars

\* a key and a button held when the device went away are still held after the
\* device was opened again
C39_Witness_HeldAcrossReconnect ==
    /\ tlast.was_lost /\ tracker.connected
    /\ "KEY_A" \in tracker.key_state /\ "BTN_LEFT" \in tracker.buttons

\* C38: every press of a key drained by KeyboardDevice.poll is reflected in a
\* report: the call that drains the press returns one, also when the release of
\* the key is drained by the same call.
C38_EveryPressIsReported ==
    (tlast.op = "KeyboardDevice.poll" /\ tlast.new_press) => tlast.ret

DuplicateReady == daemon.ready_seen /\ daemon'.readies = daemon.readies + 1

\* C34: a duplicate controller-ready callback changes no daemon state: no second
\* service, no second timer, and the trackers and the descriptors they hold stay
\* in place.
C34_DuplicateReadyIgnored ==
    [][ DuplicateReady =>
          /\ daemon'.daemon_service = daemon.daemon_service
          /\ daemon'.timers = daemon.timers
          /\ daemon'.keyboard_char = daemon.keyboard_char
          /\ daemon'.mouse_svc = daemon.mouse_svc
          /\ tracker' = tracker
      ]_vars

\* C40: at most one periodic update_reports timer is scheduled at any time,
\* whatever the sequence of ready callbacks, ticks and stop() calls.
C40_AtMostOneTimer == daemon.timers <= 1

\* C36: after every completed tick the value stored in the keyboard input report
\* characteristic is the keyboard report built from the keys the tracker holds
\* pressed, whatever host writes and dummy reports came between the ticks.
C36_KeyboardValueFollowsKeys ==
    (DaemonTick /\ daemon.tick.kb_polled)
        => daemon.kb_value = build_keyboard_report_bytes(sorted(tracker.key_state))

(***************************************************************************)
(* ui/ui.py and ui/status_client.py: the console UI, a D-Bus client of the *)
(* daemon. The status lists one service with one characteristic, the one   *)
(* of the characteristic model above.                                      *)
(***************************************************************************)
\* how far the selection is moved at the levels that do not wrap it
MaxIndex == 2

\* the key the UI handled, after the one it handled before
UIKey(u, key, enable) ==
    [u EXCEPT !.key = key, !.enable = enable, !.cur = notifying,
              !.prev_key = ui.key, !.prev_enable = ui.enable]

\* StatusClient.get_status as the main loop calls it before every key: the latest
\* pushed status if there is one, else a GetStatus call; of the status, the
\* characteristic's 'notifying'
get_status ==
    IF ui.latest_status.known THEN ui.latest_status
    ELSE [known |-> TRUE, notifying |-> notifying]

\* StatusClient._on_status_updated: the pushed status replaces the cached one
on_status_updated(u) ==
    [u EXCEPT !.latest_status = [known |-> TRUE, notifying |-> notifying]]

\* ConsoleUI._move_selection: max(0, index + delta), wrapped by the length of the
\* list at the services and characteristics levels (one entry each)
move_selection(delta) ==
    /\ ui.selected_index + delta <= MaxIndex
    /\ \E i \in {IF ui.selected_index + delta < 0 THEN 0 ELSE ui.selected_index + delta} :
           ui' = UIKey([ui EXCEPT !.selected_index =
                           IF ui.level \in {"services", "characteristics"}
                           THEN i % 1 ELSE i],
                       "move", FALSE)
    /\ UNCHANGED <<charvars, controller>>

\* ConsoleUI._handle_enter at char_detail: enable = not selected_char['notifying']
detail_enable(u) ==
    ~u.selected_char.notifying

\* ConsoleUI._handle_enter, reached only while the service is available. root:
\* Toggle on an even index, else the services level; services and characteristics:
\* the entry of the status (of the selected service) is kept as the selection;
\* char_detail: client.set_notify(uuid, enable), a failed call marks the service
\* unavailable. The adapter answers the Toggle's calls or refuses the power-on
handle_enter(call_ok, bus_ok, power_ok) ==
    /\ ui.service_available
    /\ CASE ui.level = "root" /\ ui.selected_index % 2 = 0 ->
               IF call_ok
               THEN /\ Toggle(power_ok, TRUE, TRUE)
                    /\ ui' = UIKey(on_status_updated(ui), "Toggle", FALSE)
                    /\ UNCHANGED charvars
               ELSE /\ ui' = UIKey([ui EXCEPT !.service_available = FALSE],
                                   "Toggle failed", FALSE)
                    /\ UNCHANGED <<charvars, controller>>
         [] ui.level = "root" /\ ui.selected_index % 2 # 0 ->
               /\ ui' = UIKey([ui EXCEPT !.level = "services", !.selected_index = 0],
                              "enter", FALSE)
               /\ UNCHANGED <<charvars, controller>>
         [] ui.level = "services" ->
               /\ ui' = UIKey([ui EXCEPT !.selected_service = get_status,
                                         !.level = "characteristics",
                                         !.selected_index = 0],
                              "enter", FALSE)
               /\ UNCHANGED <<charvars, controller>>
         [] ui.level = "characteristics" ->
               /\ ui' = UIKey(IF ui.selected_service.known
                              THEN [ui EXCEPT !.selected_char = ui.selected_service,
                                              !.level = "char_detail"]
                              ELSE ui,
                              "enter", FALSE)
               /\ UNCHANGED <<charvars, controller>>
         [] ui.level = "char_detail" ->
               IF call_ok
               THEN /\ SetNotify(structure.char.uuid, detail_enable(ui), bus_ok)
                    /\ ui' = UIKey(ui, "SetNotify", detail_enable(ui))
                    /\ UNCHANGED controller
               ELSE /\ ui' = UIKey([ui EXCEPT !.service_available = FALSE],
                                   "SetNotify failed", detail_enable(ui))
                    /\ UNCHANGED <<charvars, controller>>

\* ConsoleUI._handle_back: one level up, the selections are kept
handle_back ==
    /\ ui' = UIKey([ui EXCEPT !.level = CASE ui.level = "char_detail" -> "characteristics"
                                          [] ui.level = "characteristics" -> "services"
                                          [] OTHER -> "root",
                              !.selected_index = IF ui.level = "root" THEN @ ELSE 0],
                   "back", FALSE)
    /\ UNCHANGED <<charvars, controller>>

\* ConsoleUI._connect_client(initial=False), tried while the service is unavailable:
\* a new StatusClient, the root level, no selection
connect_client ==
    /\ ~ui.service_available
    /\ ui' = UIKey([ui EXCEPT !.service_available = TRUE, !.level = "root",
                              !.selected_index = 0,
                              !.selected_service = NoStatus,
                              !.selected_char = NoStatus,
                              !.latest_status = NoStatus],
                   "reconnect", FALSE)
    /\ UNCHANGED <<charvars, controller>>

\* the keys of the UI, and the host subscribing and unsubscribing meanwhile
UINext ==
    /\ UNCHANGED <<kbvars, mousevars, trvars, daemon, threads>>
    /\ \/ \E delta \in {-1, 1} : move_selection(delta)
       \/ \E call_ok \in BOOLEAN, bus_ok \in BOOLEAN, power_ok \in BOOLEAN :
              handle_enter(call_ok, bus_ok, power_ok)
       \/ handle_back
       \/ connect_client
       \/ StartNotify(TRUE) /\ UNCHANGED <<controller, ui>>
       \/ StopNotify(TRUE) /\ UNCHANGED <<controller, ui>>

SpecUI == Init /\ [][UINext]_vars

\* C35: at the characteristic-detail level every Enter sends SetNotify with the
\* negation of the characteristic's Notifying state at that moment, and of two
\* successive Enter presses the second sends the negation of what the first sent
C35_EnterTogglesNotifying ==
    ui.key = "SetNotify" =>
        /\ ui.enable = ~ui.cur
        /\ ui.prev_key = "SetNotify" => ui.enable # ui.prev_enable

====
